---- MODULE Spec2Model ----
(***************************************************************************)
(* The enhancement pipeline of pdf_ingest.                                 *)
(*                                                                         *)
(* The work queue: the pending_enhancements                                *)
(* table (db.py), the three functions that write it                        *)
(* (create_pending_enhancement, fetch_next_pending, update_pending_status),*)
(* the state-machine table of models.py, and the two robots that drive it  *)
(* (robots/pdf_extractor.py, robots/paperpile_sync.py).                    *)
(*                                                                         *)
(* Every db.py function opens a connection, executes ONE statement and     *)
(* commits.  PostgreSQL runs the statement atomically against the latest   *)
(* committed rows (READ COMMITTED re-checks a row when it locks it) and    *)
(* keeps the row lock the statement took until the commit.  A function     *)
(* whose lock another process can observe is therefore two steps here,     *)
(* "execute" and "commit", with the uncommitted row version in txn.        *)
(*                                                                         *)
(* The artifact store: the enhancements table and create_enhancement.      *)
(*                                                                         *)
(* The search index: IndexManager of es_client.py (initialize, migrate,    *)
(* rollback, delete_old_versions, delete_all).  Each call it makes on the  *)
(* backend is one step, so that operators and writers interleave between   *)
(* the calls.  bulk_sql_to_es projects the catalog into the alias.         *)
(*                                                                         *)
(* run_loop of the two robots, which calls process_one until it is told    *)
(* to stop, and guard_transition of models.py.                             *)
(***************************************************************************)
EXTENDS Integers, FiniteSets, Sequences, TLC

\* ------------------------------------------------------------------ bounds
MaxDocs == 2
MaxTime == 1
MaxSeq == 3
MaxSetStatus == 1
MaxVersion == 3

\* ------------------------------------------------------------- the universe
Docs == 1..MaxDocs

EnhancementType == {"full_text", "paperpile_metadata"}

PendingEnhancementStatus ==
    {"PENDING", "PROCESSING", "IMPORTING", "INDEXING", "COMPLETED",
     "EXPIRED", "DISCARDED", "INDEXING_FAILED", "FAILED"}

\* PendingEnhancementStatus.transitions(): {state: {allowed next states}}
transitions ==
    [s \in PendingEnhancementStatus |->
        CASE s = "PENDING" -> {"PROCESSING"}
          [] s = "PROCESSING" -> {"IMPORTING", "EXPIRED", "FAILED", "DISCARDED"}
          [] s = "IMPORTING" -> {"INDEXING", "COMPLETED", "DISCARDED", "FAILED"}
          [] s = "INDEXING" -> {"COMPLETED", "INDEXING_FAILED"}
          [] s = "COMPLETED" -> {}
          [] s = "EXPIRED" -> {"PENDING"}
          [] s = "DISCARDED" -> {}
          [] s = "INDEXING_FAILED" -> {}
          [] s = "FAILED" -> {"PENDING"}]

\* StateMachineMixin.can_transition_to
can_transition_toOrSelf(current, new_status) ==
    new_status \in transitions[current] \cup {current}
can_transition_to(current, new_status) == new_status \in transitions[current]

\* The processes.  Two pdf-extractor runtimes and one paperpile-sync runtime
\* (run-robot), two CLI invocations that enqueue (register, queue-metadata),
\* and one direct caller of the db functions (an operator, or the tests).
Extractors == {"x1", "x2"}
Syncers == {"s1"}
Robots == Extractors \cup Syncers
Clients == {"c1", "c2"}
Callers == {"api"}
Procs == Robots \cup Clients \cup Callers

\* The enhancement type a robot claims (process_one's argument to
\* fetch_next_pending) and the ROBOT_ID it writes artifacts under.
RobotType(p) == IF p \in Extractors THEN "full_text" ELSE "paperpile_metadata"
ROBOT_ID(p) == IF p \in Extractors THEN "pdf-extractor" ELSE "paperpile-sync"

NULL == "NULL"
NoRow == [id |-> 0]
NoTxn == [id |-> 0]

\* StateMachineMixin.guard_transition: raises StateTransitionError(current,
\* target, allowed) when the transition is not allowed, and returns None
\* otherwise.  The value is what the call raised, NULL for nothing.
guard_transition(current, new_status) ==
    IF ~can_transition_to(current, new_status)
    THEN [exc |-> "StateTransitionError", current |-> current,
          target |-> new_status, allowed |-> transitions[current]]
    ELSE [exc |-> NULL, current |-> current, target |-> new_status,
          allowed |-> {}]

\* The operators of the search index: es-migrate, es-rollback, es-cleanup and
\* init-es invocations, each an IndexManager on the same alias.  An operator at
\* rest has no call in progress.
Operators == {"o1", "o2"}
Idle == [fn |-> "none", pc |-> "idle", from |-> 0, to |-> 0, v |-> 0,
         deleted |-> {}, ret |-> 0, exc |-> NULL]

\* run_loop of a robot: max_iterations (None is written NoLimit), iterations,
\* where the loop is (at), and which of its two break statements ended it
\* (exit: "cap" for the iteration cap, "empty" for a claim that found no work).  A robot whose process_one is called without
\* run_loop, as the tests do, has no loop.
NoLimit == -1
NoLoop == [at |-> "off", max_iterations |-> NoLimit, iterations |-> 0,
           exit |-> "none"]

VARIABLES
    documents,              \* documents table: the set of document ids
    pending_enhancements,   \* committed rows: id -> row
    seq,                    \* pending_enhancements_id_seq (SERIAL)
    enhancements,           \* committed artifact rows: id -> row
    enh_seq,                \* enhancements_id_seq (SERIAL)
    now,                    \* NOW()
    txn,                    \* per process: the uncommitted row version it holds
    pc,                     \* per process: where it is in its code
    pending,                \* per robot: process_one's local `pending`
    claim_count,            \* per row id: how often fetch_next_pending returned it
    set_calls,              \* direct update_pending_status calls made so far
    last,                   \* the direct caller's last call: what it saw and got
    doc_seq,                \* documents_id_seq (SERIAL)
    run,                    \* per robot: the run_loop it is in
    indices,                \* search backend: the versions N with an index <alias>_vN
    alias,                  \* search backend: the versions the alias is bound to
    blocked,                \* search backend: the versions with index.blocks.write
    contents,               \* search backend: per index, the ids of its documents
    op                      \* per operator: the IndexManager call it is in

\* The search backend and its operators; the relational store and its processes.
esVars == <<indices, alias, blocked, contents, op>>
dbVars == <<documents, pending_enhancements, seq, enhancements, enh_seq, now,
            txn, pc, pending, claim_count, set_calls, last, doc_seq, run>>

vars == <<documents, pending_enhancements, seq, enhancements, enh_seq, now,
          txn, pc, pending, claim_count, set_calls, last, doc_seq, run,
          indices, alias, blocked, contents, op>>

\* ---------------------------------------------------------------- the rows
Ids == DOMAIN pending_enhancements

\* A PendingEnhancement as the db functions return it: the row with its id.
Rec(i, row) == [id |-> i] @@ row

\* UNIQUE(document_id, enhancement_type): the committed rows an INSERT of
\* (d, t) conflicts with.
ConflictNoUnique(d, t) == {}
Conflict(d, t) ==
    {i \in Ids : pending_enhancements[i].document_id = d
                 /\ pending_enhancements[i].enhancement_type = t}

\* The row lock: process p cannot lock row i while another process holds an
\* uncommitted version of it.
LockedByOther(i, p) == \E q \in Procs \ {p} : txn[q].id = i

\* An uncommitted INSERT of the same key by another process: the unique index
\* makes the second INSERT wait for the first to commit.
InsertInFlight(d, t, p) ==
    \E q \in Procs \ {p} :
        /\ txn[q].id # 0
        /\ txn[q].insert
        /\ txn[q].row.document_id = d
        /\ txn[q].row.enhancement_type = t

\* create_pending_enhancement: VALUES (d, t, 'PENDING') with the column
\* defaults of the DDL.
InsertRow(d, t, ts) ==
    [document_id |-> d, enhancement_type |-> t, status |-> "PENDING",
     created_at |-> ts, updated_at |-> ts, attempts |-> 0, last_error |-> NULL]

Revivable == {"COMPLETED", "FAILED", "EXPIRED", "DISCARDED", "INDEXING_FAILED"}

\* create_pending_enhancement: ON CONFLICT ... DO UPDATE SET status = CASE ..,
\* updated_at = NOW()
UpsertRowAlwaysPending(row, ts) ==
    [row EXCEPT !.status = "PENDING", !.updated_at = ts]
UpsertRowResetAttempts(row, ts) ==
    [row EXCEPT !.status = IF row.status \in Revivable THEN "PENDING" ELSE row.status,
                !.attempts = IF row.status \in Revivable THEN 0 ELSE row.attempts,
                !.updated_at = ts]
UpsertRowNoExpired(row, ts) ==
    [row EXCEPT !.status = IF row.status \in Revivable \ {"EXPIRED"}
                           THEN "PENDING" ELSE row.status,
                !.updated_at = ts]
UpsertRowNewCreation(row, ts) ==
    [row EXCEPT !.status = IF row.status \in Revivable THEN "PENDING" ELSE row.status,
                !.created_at = IF row.status \in Revivable THEN ts ELSE @,
                !.updated_at = ts]
UpsertRowRevivesProcessing(row, ts) ==
    [row EXCEPT !.status = IF row.status \in Revivable \cup {"PROCESSING"}
                           THEN "PENDING" ELSE row.status,
                !.updated_at = ts]
UpsertRow(row, ts) ==
    [row EXCEPT !.status = IF row.status \in Revivable THEN "PENDING" ELSE row.status,
                !.updated_at = ts]

\* fetch_next_pending: SET status = 'PROCESSING', attempts = attempts + 1,
\* updated_at = NOW()
ClaimRowNoAttempt(row, ts) ==
    [row EXCEPT !.status = "PROCESSING", !.updated_at = ts]
ClaimRow(row, ts) ==
    [row EXCEPT !.status = "PROCESSING", !.attempts = @ + 1, !.updated_at = ts]

\* fetch_next_pending: WHERE status = 'PENDING' AND enhancement_type = t
\* ... FOR UPDATE SKIP LOCKED: the rows process p can lock.
CandidatesAnyType(t, p) ==
    {i \in Ids : pending_enhancements[i].status = "PENDING"
                 /\ ~LockedByOther(i, p)}
CandidatesNoLock(t, p) ==
    {i \in Ids : pending_enhancements[i].status = "PENDING"
                 /\ pending_enhancements[i].enhancement_type = t}
Candidates(t, p) ==
    {i \in Ids : pending_enhancements[i].status = "PENDING"
                 /\ pending_enhancements[i].enhancement_type = t
                 /\ ~LockedByOther(i, p)}

\* fetch_next_pending: ORDER BY created_at ... LIMIT 1.  The statement orders by
\* created_at alone, so among equal creation times any row may come first.
FirstUnordered(S) == S
First(S) ==
    {i \in S : \A j \in S :
        pending_enhancements[i].created_at <= pending_enhancements[j].created_at}

\* update_pending_status: SET status = s, last_error = e, updated_at = NOW()
SetRow(row, s, e, ts) ==
    [row EXCEPT !.status = s, !.last_error = e, !.updated_at = ts]

\* update_pending_status(pending_id, status, last_error): the table after the
\* UPDATE ... WHERE id = pending_id (no row: nothing is updated).
update_pending_status(i, s, e) ==
    IF i \in Ids
    THEN [pending_enhancements EXCEPT ![i] = SetRow(@, s, e, now)]
    ELSE pending_enhancements

\* --------------------------------------------------------------- the start
\* init_db(): the three tables exist and are empty; every process is idle.
Init ==
    /\ documents = {}
    /\ pending_enhancements = <<>>
    /\ seq = 0
    /\ enhancements = <<>>
    /\ enh_seq = 0
    /\ now = 0
    /\ txn = [p \in Procs |-> NoTxn]
    /\ pc = [p \in Procs |-> "idle"]
    /\ pending = [p \in Robots |-> NoRow]
    /\ claim_count = <<>>
    /\ set_calls = 0
    /\ last = [op |-> "none", arg |-> NULL, before |-> NoRow, ret |-> NoRow,
               exc |-> NULL]
    /\ doc_seq = 0
    /\ run = [p \in Robots |-> NoLoop]
    /\ indices = {}
    /\ alias = {}
    /\ blocked = {}
    /\ contents = <<>>
    /\ op = [o \in Operators |-> Idle]

\* A caller about to check a transition: any current status, any target.
InitGuard ==
    /\ documents = {}
    /\ pending_enhancements = <<>>
    /\ seq = 0
    /\ enhancements = <<>>
    /\ enh_seq = 0
    /\ now = 0
    /\ txn = [p \in Procs |-> NoTxn]
    /\ pc = [p \in Procs |-> "idle"]
    /\ pending = [p \in Robots |-> NoRow]
    /\ claim_count = <<>>
    /\ set_calls = 0
    /\ \E current \in PendingEnhancementStatus, target \in PendingEnhancementStatus :
           last = [op |-> "none", arg |-> <<current, target>>, before |-> NoRow,
                   ret |-> NoRow, exc |-> NULL]
    /\ doc_seq = 0
    /\ run = [p \in Robots |-> NoLoop]
    /\ indices = {}
    /\ alias = {}
    /\ blocked = {}
    /\ contents = <<>>
    /\ op = [o \in Operators |-> Idle]

\* current.guard_transition(target)
CallGuardTransition ==
    /\ last.op = "none"
    /\ LET error == guard_transition(last.arg[1], last.arg[2]) IN
        last' = [op |-> "guard_transition", arg |-> last.arg, before |-> NoRow,
                 ret |-> error, exc |-> error.exc]
    /\ UNCHANGED <<documents, pending_enhancements, seq, enhancements, enh_seq,
                   now, txn, pc, pending, claim_count, set_calls, doc_seq, run>>
    /\ UNCHANGED esVars

SpecGuard == InitGuard /\ [][CallGuardTransition]_vars

\* Time passes: NOW() is read from a clock that never goes back.
Tick ==
    /\ now < MaxTime
    /\ now' = now + 1
    /\ UNCHANGED <<documents, pending_enhancements, seq, enhancements, enh_seq,
                   txn, pc, pending, claim_count, set_calls, last>>
    /\ UNCHANGED <<doc_seq, run, esVars>>

\* register_document / register_files with a path not yet in the catalog: the
\* INSERT takes the next id of the sequence, so the id of a deleted document is
\* never given out again.
RegisterDocument ==
    /\ doc_seq < MaxDocs
    /\ doc_seq' = doc_seq + 1
    /\ documents' = documents \cup {doc_seq + 1}
    /\ UNCHANGED <<pending_enhancements, seq, enhancements, enh_seq, now,
                   txn, pc, pending, claim_count, set_calls, last>>
    /\ UNCHANGED <<run, esVars>>

\* ------------------------------------------------ create_pending_enhancement
\* cur.execute(sql, (document_id, type, 'PENDING')): the INSERT takes the next
\* id of the sequence; without a conflict it inserts, with one it locks the
\* existing row and updates it.  It waits while the key is being inserted, or
\* the conflicting row is locked, by another transaction.
EnqueueExecute(c, d, t) ==
    /\ pc[c] = "idle"
    /\ d \in documents
    /\ seq < MaxSeq
    /\ seq' = seq + 1
    /\ IF Conflict(d, t) = {}
       THEN /\ ~InsertInFlight(d, t, c)
            /\ txn' = [txn EXCEPT ![c] =
                          [id |-> seq + 1, insert |-> TRUE,
                           row |-> InsertRow(d, t, now)]]
       ELSE \E i \in Conflict(d, t) :
            /\ ~LockedByOther(i, c)
            /\ txn' = [txn EXCEPT ![c] =
                          [id |-> i, insert |-> FALSE,
                           row |-> UpsertRow(pending_enhancements[i], now)]]
    /\ pc' = [pc EXCEPT ![c] = "enqueue"]
    /\ UNCHANGED <<documents, pending_enhancements, enhancements, enh_seq, now,
                   pending, claim_count, set_calls, last>>
    /\ UNCHANGED <<doc_seq, run, esVars>>

\* pending_id = cur.fetchone()[0]; conn.commit(); return pending_id
EnqueueCommit(c) ==
    /\ pc[c] = "enqueue"
    /\ pending_enhancements' = (txn[c].id :> txn[c].row) @@ pending_enhancements
    /\ claim_count' = IF txn[c].insert
                      THEN (txn[c].id :> 0) @@ claim_count
                      ELSE claim_count
    /\ txn' = [txn EXCEPT ![c] = NoTxn]
    /\ pc' = [pc EXCEPT ![c] = "idle"]
    /\ UNCHANGED <<documents, seq, enhancements, enh_seq, now, pending,
                   set_calls, last>>
    /\ UNCHANGED <<doc_seq, run, esVars>>

\* -------------------------------------------------------- fetch_next_pending
\* cur.execute(sql, ('PROCESSING', 'PENDING', type)): the sub-select locks the
\* first row it can and the UPDATE writes it; with no row to lock nothing is
\* updated, fetchone() is None and process_one returns without work.
\* When run_loop made the call, the loop is inside process_one from here on,
\* or has the result of a process_one that found no work.
Called(p, at) == IF run[p].at = "call" THEN [run EXCEPT ![p].at = at] ELSE run

ClaimExecute(p) ==
    /\ pc[p] = "idle"
    /\ LET C == First(Candidates(RobotType(p), p)) IN
       IF C = {}
       THEN /\ pending' = [pending EXCEPT ![p] = NoRow]
            /\ run' = Called(p, "empty")
            /\ UNCHANGED <<txn, pc>>
       ELSE \E i \in C :
            /\ txn' = [txn EXCEPT ![p] =
                          [id |-> i, insert |-> FALSE,
                           row |-> ClaimRow(pending_enhancements[i], now)]]
            /\ pc' = [pc EXCEPT ![p] = "claim"]
            /\ run' = Called(p, "process_one")
            /\ UNCHANGED pending
    /\ UNCHANGED <<documents, pending_enhancements, seq, enhancements, enh_seq,
                   now, claim_count, set_calls, last>>
    /\ UNCHANGED <<doc_seq, esVars>>

\* row = cur.fetchone(); conn.commit(); return PendingEnhancement(...)
ClaimCommit(p) ==
    /\ pc[p] = "claim"
    /\ pending_enhancements' =
           [pending_enhancements EXCEPT ![txn[p].id] = txn[p].row]
    /\ pending' = [pending EXCEPT ![p] = Rec(txn[p].id, txn[p].row)]
    /\ claim_count' = [claim_count EXCEPT ![txn[p].id] = @ + 1]
    /\ txn' = [txn EXCEPT ![p] = NoTxn]
    /\ pc' = [pc EXCEPT ![p] = "claimed"]
    /\ UNCHANGED <<documents, seq, enhancements, enh_seq, now, set_calls,
                   last>>
    /\ UNCHANGED <<doc_seq, run, esVars>>

\* ---------------------------------------------------------------- the robots
\* The outcomes of the pdf-extractor's handler (extract_text, clean_text) and
\* the last_error each failure leaves.
ExtractorFailures == {"Empty text extracted", "unexpected error"}

\* fetch_document_by_id(pending.document_id) is None
DocumentMissing(p) == pending[p].document_id \notin documents

\* The status process_one writes when the document is gone: the pdf-extractor
\* writes FAILED, paperpile-sync writes DISCARDED.
DocumentNotFoundStatus(p) == IF p \in Extractors THEN "FAILED" ELSE "DISCARDED"

\* The manifest paperpile-sync loaded at its start, by the documents whose
\* file name it has an entry for (document 1 has one, the others have none),
\* and the lookup of a document in it.
manifest_map == {1}
_lookup_manifestAlwaysHit(d) == [document |-> d]
_lookup_manifest(d) == IF d \in manifest_map THEN [document |-> d] ELSE NoRow

\* A robot's status write: update_pending_status on the row it claimed.  The
\* UPDATE waits for the row lock when another transaction holds it.
RobotSetStatusNoError(p, s, e, next) ==
    /\ ~LockedByOther(pending[p].id, p)
    /\ pending_enhancements' = update_pending_status(pending[p].id, s, NULL)
    /\ pc' = [pc EXCEPT ![p] = next]
    /\ pending' = [pending EXCEPT ![p] = IF next = "idle" THEN NoRow ELSE @]
RobotSetStatus(p, s, e, next) ==
    /\ ~LockedByOther(pending[p].id, p)
    /\ pending_enhancements' = update_pending_status(pending[p].id, s, e)
    /\ pc' = [pc EXCEPT ![p] = next]
    /\ pending' = [pending EXCEPT ![p] = IF next = "idle" THEN NoRow ELSE @]

\* process_one after the claim.
\* pdf_extractor: the document is gone (FAILED, "Document not found"), or the
\* text is extracted and cleaned (IMPORTING), or extraction fails (FAILED with
\* the message).
\* paperpile_sync: the document is gone (DISCARDED), or the manifest has an
\* entry (IMPORTING), or it has none (DISCARDED, "No manifest entry found").
RobotHandle(p) ==
    /\ pc[p] = "claimed"
    /\ IF p \in Extractors
       THEN IF DocumentMissing(p)
            THEN RobotSetStatus(p, DocumentNotFoundStatus(p),
                                "Document not found", "idle")
            ELSE \/ RobotSetStatus(p, "IMPORTING", NULL, "importing")
                 \/ \E e \in ExtractorFailures :
                        RobotSetStatus(p, "FAILED", e, "idle")
       ELSE IF DocumentMissing(p)
            THEN RobotSetStatus(p, DocumentNotFoundStatus(p), NULL, "idle")
            ELSE IF _lookup_manifest(pending[p].document_id) # NoRow
                 THEN RobotSetStatus(p, "IMPORTING", NULL, "importing")
                 ELSE RobotSetStatus(p, "DISCARDED", "No manifest entry found",
                                     "idle")
    /\ UNCHANGED <<documents, seq, enhancements, enh_seq, now, txn,
                   claim_count, set_calls, last>>
    /\ UNCHANGED <<doc_seq, run, esVars>>

\* UNIQUE(document_id, enhancement_type, robot_id) of the enhancements table.
EnhancementConflictNoRobot(d, t, r) ==
    {i \in DOMAIN enhancements : enhancements[i].document_id = d
                                 /\ enhancements[i].enhancement_type = t}
EnhancementConflict(d, t, r) ==
    {i \in DOMAIN enhancements : enhancements[i].document_id = d
                                 /\ enhancements[i].enhancement_type = t
                                 /\ enhancements[i].robot_id = r}

\* A content is a text, written as the sequence of its character codes.
\* _sanitize_for_jsonb: obj.replace("\x00", "") takes every null byte out.
NUL == 0
NotNUL(ch) == ch # NUL
_sanitize_for_jsonb(obj) == SelectSeq(obj, NotNUL)

\* create_enhancement: INSERT ... ON CONFLICT (document_id, enhancement_type,
\* robot_id) DO UPDATE SET content = EXCLUDED.content, created_at = NOW()
create_enhancementAlwaysInsert(d, t, content, r) ==
    ((enh_seq + 1) :> [document_id |-> d, enhancement_type |-> t,
                       content |-> _sanitize_for_jsonb(content),
                       robot_id |-> r, created_at |-> now]) @@ enhancements
create_enhancement(d, t, content, r) ==
    IF EnhancementConflict(d, t, r) = {}
    THEN ((enh_seq + 1) :> [document_id |-> d, enhancement_type |-> t,
                            content |-> _sanitize_for_jsonb(content),
                            robot_id |-> r, created_at |-> now]) @@ enhancements
    ELSE [i \in DOMAIN enhancements |->
            IF i \in EnhancementConflict(d, t, r)
            THEN [enhancements[i] EXCEPT
                      !.content = _sanitize_for_jsonb(content),
                      !.created_at = now]
            ELSE enhancements[i]]

\* The payload the handler produced for the claimed unit.  Payloads are opaque
\* to the queue; each run's payload is told apart by the attempt that made it.
Content(p) == <<pending[p].attempts>>

\* process_one: create_enhancement(document_id=doc.id, ..., robot_id=ROBOT_ID).
\* The INSERT needs the document row (REFERENCES documents(id)).
RobotStoreEarly(p) ==
    /\ pc[p] \in {"claimed", "importing"}
    /\ ~DocumentMissing(p)
    /\ enhancements' = create_enhancement(pending[p].document_id, RobotType(p),
                                          Content(p), ROBOT_ID(p))
    /\ enh_seq' = enh_seq + 1
    /\ pc' = [pc EXCEPT ![p] = "stored"]
    /\ UNCHANGED <<documents, pending_enhancements, seq, now, txn, pending,
                   claim_count, set_calls, last>>
    /\ UNCHANGED <<doc_seq, run, esVars>>
RobotStore(p) ==
    /\ pc[p] = "importing"
    /\ ~DocumentMissing(p)
    /\ enhancements' = create_enhancement(pending[p].document_id, RobotType(p),
                                          Content(p), ROBOT_ID(p))
    /\ enh_seq' = enh_seq + 1
    /\ pc' = [pc EXCEPT ![p] = "stored"]
    /\ UNCHANGED <<documents, pending_enhancements, seq, now, txn, pending,
                   claim_count, set_calls, last>>
    /\ UNCHANGED <<doc_seq, run, esVars>>

\* process_one: update_pending_status(pending.id, COMPLETED)
RobotCompleteBeforeStore(p) ==
    /\ pc[p] \in {"importing", "stored"}
    /\ RobotSetStatus(p, "COMPLETED", NULL, "idle")
    /\ UNCHANGED <<documents, seq, enhancements, enh_seq, now, txn,
                   claim_count, set_calls, last>>
    /\ UNCHANGED <<doc_seq, run, esVars>>
RobotCompleteViaIndexing(p) ==
    /\ pc[p] = "stored"
    /\ RobotSetStatus(p, "INDEXING", NULL, "idle")
    /\ UNCHANGED <<documents, seq, enhancements, enh_seq, now, txn,
                   claim_count, set_calls, last>>
    /\ UNCHANGED <<doc_seq, run, esVars>>
RobotComplete(p) ==
    /\ pc[p] = "stored"
    /\ RobotSetStatus(p, "COMPLETED", NULL, "idle")
    /\ UNCHANGED <<documents, seq, enhancements, enh_seq, now, txn,
                   claim_count, set_calls, last>>
    /\ UNCHANGED <<doc_seq, run, esVars>>

\* An exception out of a store call of process_one after the unit went to
\* IMPORTING: create_enhancement fails on the foreign key when the document
\* is gone, and either call (create_enhancement, the COMPLETED write) can fail
\* in the store.  The pdf-extractor catches it (except Exception) and writes
\* FAILED with the message; paperpile-sync has no handler, the exception leaves
\* process_one and run_loop and ends the process.  A failed INSERT has still
\* taken its id from the sequence.
StoreErrors == {"ForeignKeyViolation", "OperationalError"}

RobotException(p) ==
    /\ pc[p] \in {"importing", "stored"}
    /\ \E e \in StoreErrors :
        /\ e = "ForeignKeyViolation" => (pc[p] = "importing" /\ DocumentMissing(p))
        /\ enh_seq' = IF e = "ForeignKeyViolation" THEN enh_seq + 1 ELSE enh_seq
        /\ IF p \in Extractors
           THEN RobotSetStatus(p, "FAILED", e, "idle")
           ELSE /\ pc' = [pc EXCEPT ![p] = "crashed"]
                /\ UNCHANGED <<pending_enhancements, pending>>
    /\ UNCHANGED <<documents, seq, enhancements, now, txn, claim_count,
                   set_calls, last, doc_seq, run, esVars>>

\* The runtime is terminated (killed, host lost) during fetch_next_pending or
\* right after it, before process_one wrote another status.  An open
\* transaction is rolled back by the database; a committed claim stays.  The
\* row the process had is kept in pending to tell which unit it left behind.
Terminate(p) ==
    /\ pc[p] \in {"claim", "claimed"}
    /\ pc' = [pc EXCEPT ![p] = "terminated"]
    /\ txn' = [txn EXCEPT ![p] = NoTxn]
    /\ UNCHANGED <<documents, pending_enhancements, seq, enhancements, enh_seq,
                   now, pending, claim_count, set_calls, last, doc_seq, run>>
    /\ UNCHANGED esVars

\* DELETE FROM documents WHERE id = d, issued on the database from outside the
\* core: ON DELETE CASCADE takes the document's pending rows and artifacts with
\* it.  The DELETE waits for every transaction that holds a lock on one of the
\* rows or is inserting a row that references the document.
DeleteDocument(d) ==
    /\ d \in documents
    /\ \A q \in Procs : txn[q].id # 0 => txn[q].row.document_id # d
    /\ documents' = documents \ {d}
    /\ pending_enhancements' =
           [i \in {j \in Ids : pending_enhancements[j].document_id # d} |->
               pending_enhancements[i]]
    /\ claim_count' =
           [i \in {j \in Ids : pending_enhancements[j].document_id # d} |->
               claim_count[i]]
    /\ enhancements' =
           [i \in {j \in DOMAIN enhancements : enhancements[j].document_id # d} |->
               enhancements[i]]
    /\ UNCHANGED <<seq, enh_seq, now, txn, pc, pending, set_calls, last,
                   doc_seq, run, esVars>>

\* ------------------------------------------------------------------ run_loop
\* run_loop(max_iterations=N) and run_loop() of pdf_extractor.py and
\* paperpile_sync.py: iterations = 0; while True: ...
MaxIterations == 2

LoopStart(p, max_iterations) ==
    /\ run[p].at = "off"
    /\ pc[p] = "idle"
    /\ run' = [run EXCEPT ![p] = [at |-> "top", max_iterations |-> max_iterations,
                                  iterations |-> 0, exit |-> "none"]]
    /\ UNCHANGED <<documents, pending_enhancements, seq, enhancements, enh_seq,
                   now, txn, pc, pending, claim_count, set_calls, last, doc_seq>>
    /\ UNCHANGED esVars

\* if max_iterations is not None and iterations >= max_iterations: break;
\* otherwise process_one is called.
LoopTop(p) ==
    /\ run[p].at = "top"
    /\ IF run[p].max_iterations # NoLimit
          /\ run[p].iterations >= run[p].max_iterations
       THEN run' = [run EXCEPT ![p].at = "stopped", ![p].exit = "cap"]
       ELSE /\ run[p].iterations < MaxIterations
            /\ run' = [run EXCEPT ![p].at = "call"]
    /\ UNCHANGED <<documents, pending_enhancements, seq, enhancements, enh_seq,
                   now, txn, pc, pending, claim_count, set_calls, last, doc_seq>>
    /\ UNCHANGED esVars

\* process_one returned True ("completed", "discarded"): iterations += 1 and
\* the loop goes round.
LoopProcessed(p) ==
    /\ run[p].at = "process_one"
    /\ pc[p] = "idle"
    /\ run' = [run EXCEPT ![p].at = "top", ![p].iterations = @ + 1]
    /\ UNCHANGED <<documents, pending_enhancements, seq, enhancements, enh_seq,
                   now, txn, pc, pending, claim_count, set_calls, last, doc_seq>>
    /\ UNCHANGED esVars

\* process_one returned False (None): iterations += 1; with max_iterations
\* the loop breaks, without it the loop sleeps.
LoopEmptyAlwaysSleep(p) ==
    /\ run[p].at = "empty"
    /\ run' = [run EXCEPT ![p].iterations = @ + 1, ![p].at = "sleep"]
    /\ UNCHANGED <<documents, pending_enhancements, seq, enhancements, enh_seq,
                   now, txn, pc, pending, claim_count, set_calls, last, doc_seq>>
    /\ UNCHANGED esVars
LoopEmpty(p) ==
    /\ run[p].at = "empty"
    /\ run' = [run EXCEPT ![p].iterations = @ + 1,
                          ![p].at = IF run[p].max_iterations # NoLimit
                                    THEN "stopped"
                                    ELSE "sleep",
                          ![p].exit = IF run[p].max_iterations # NoLimit
                                      THEN "empty"
                                      ELSE "none"]
    /\ UNCHANGED <<documents, pending_enhancements, seq, enhancements, enh_seq,
                   now, txn, pc, pending, claim_count, set_calls, last, doc_seq>>
    /\ UNCHANGED esVars

\* time.sleep(poll_interval) is over.
LoopSleep(p) ==
    /\ run[p].at = "sleep"
    /\ run' = [run EXCEPT ![p].at = "top"]
    /\ UNCHANGED <<documents, pending_enhancements, seq, enhancements, enh_seq,
                   now, txn, pc, pending, claim_count, set_calls, last, doc_seq>>
    /\ UNCHANGED esVars

\* --------------------------------------------------- direct calls of db.py
\* One caller (an operator, or the test-suite) calls the three functions one
\* after the other, each running to its commit, with arguments of its choice.
\* last records the call: the row as it was before, what was returned, and
\* the exception raised (none of the three functions raises one).
CallEnqueue(d, t) ==
    /\ d \in documents
    /\ seq < MaxSeq
    /\ seq' = seq + 1
    /\ LET hit == Conflict(d, t)
           fresh == hit = {}
           i == IF fresh THEN seq + 1 ELSE CHOOSE j \in hit : TRUE
           row == IF fresh THEN InsertRow(d, t, now)
                  ELSE UpsertRow(pending_enhancements[i], now)
       IN /\ pending_enhancements' = (i :> row) @@ pending_enhancements
          /\ claim_count' = IF fresh THEN (i :> 0) @@ claim_count ELSE claim_count
          /\ last' = [op |-> "create_pending_enhancement", arg |-> <<d, t>>,
                      before |-> IF fresh THEN NoRow
                                 ELSE Rec(i, pending_enhancements[i]),
                      ret |-> [id |-> i], exc |-> NULL]
    /\ UNCHANGED <<documents, enhancements, enh_seq, now, txn, pc, pending,
                   set_calls>>
    /\ UNCHANGED <<doc_seq, run, esVars>>

CallClaim(t) ==
    /\ LET C == First(Candidates(t, "api")) IN
       IF C = {}
       THEN /\ last' = [op |-> "fetch_next_pending", arg |-> t, before |-> NoRow,
                        ret |-> NoRow, exc |-> NULL]
            /\ UNCHANGED <<pending_enhancements, claim_count>>
       ELSE \E i \in C :
            LET row == ClaimRow(pending_enhancements[i], now) IN
            /\ pending_enhancements' = [pending_enhancements EXCEPT ![i] = row]
            /\ claim_count' = [claim_count EXCEPT ![i] = @ + 1]
            /\ last' = [op |-> "fetch_next_pending", arg |-> t,
                        before |-> Rec(i, pending_enhancements[i]),
                        ret |-> Rec(i, row), exc |-> NULL]
    /\ UNCHANGED <<documents, seq, enhancements, enh_seq, now, txn, pc, pending,
                   set_calls>>
    /\ UNCHANGED <<doc_seq, run, esVars>>

CallSetStatus(i, s, e) ==
    /\ i \in Ids
    /\ set_calls < MaxSetStatus
    /\ set_calls' = set_calls + 1
    /\ pending_enhancements' = update_pending_status(i, s, e)
    /\ last' = [op |-> "update_pending_status", arg |-> s,
                before |-> Rec(i, pending_enhancements[i]),
                ret |-> NoRow, exc |-> NULL]
    /\ UNCHANGED <<documents, seq, enhancements, enh_seq, now, txn, pc, pending,
                   claim_count>>
    /\ UNCHANGED <<doc_seq, run, esVars>>

\* create_enhancement called directly, with a producer name and a content of
\* the caller's choice (one of them with a null byte in it).
RobotIds == {"pdf-extractor", "paperpile-sync"}
Payloads == {<<1>>, <<2>>, <<NUL, 1>>}

CallPut(d, t, content, r) ==
    /\ d \in documents
    /\ enh_seq < MaxSeq
    /\ enh_seq' = enh_seq + 1
    /\ enhancements' = create_enhancement(d, t, content, r)
    /\ LET hit == EnhancementConflict(d, t, r)
           i == IF hit = {} THEN enh_seq + 1 ELSE CHOOSE j \in hit : TRUE
       IN last' = [op |-> "create_enhancement", arg |-> <<d, t, r, content>>,
                   before |-> IF hit = {} THEN NoRow ELSE Rec(i, enhancements[i]),
                   ret |-> [id |-> i], exc |-> NULL]
    /\ UNCHANGED <<documents, pending_enhancements, seq, now, txn, pc, pending,
                   claim_count, set_calls, doc_seq, run, esVars>>

\* ------------------------------------------------------- the search index
\* The physical index <alias>_v<N> is written N (_generate_index_name,
\* get_version); 0 stands for None.  Every IndexManager method is a sequence
\* of calls to the search backend, each a step here; between two of them the
\* other operators and the indexer run.  op[o] holds the method operator o is
\* in (fn), the call it makes next (pc), the method's two index variables
\* (from, to) and, once the method has ended, what it returned (ret) or the
\* exception it raised (exc).

\* get_current_index: list(alias_info.keys())[0], or None on NotFoundError.
\* With two bindings the backend may list either index first.
get_current_index == IF alias = {} THEN {0} ELSE alias

\* The method returns value r, or ends with exception e.
Return(o, r) == op' = [op EXCEPT ![o].pc = "idle", ![o].ret = r, ![o].exc = NULL]
Raise(o, e) == op' = [op EXCEPT ![o].pc = "idle", ![o].ret = 0, ![o].exc = e]
Goto(o, next) == op' = [op EXCEPT ![o].pc = next]
Begin(fn, next, from, to) ==
    [fn |-> fn, pc |-> next, from |-> from, to |-> to, v |-> 0, deleted |-> {},
     ret |-> 0, exc |-> NULL]

\* update_aliases(actions=[{remove: index a}, {add: index b}]): one atomic
\* change of the alias.  A remove of a binding that is not there changes
\* nothing (must_exist defaults to false); a missing index fails the request.
update_aliasesAddOnly(a, b) == alias \cup {b}
update_aliases(a, b) == (alias \ {a}) \cup {b}

\* initialize ------------------------------------------------------------
\* current = self.get_current_index(); if current: return current.  The method
\* is called by an operator, or by migrate when it found no alias.
InitializeReadAlwaysCreate(o) ==
    /\ \/ op[o].pc = "idle"
       \/ op[o].fn = "migrate" /\ op[o].pc = "initialize"
    /\ LET fn == IF op[o].pc = "idle" THEN "initialize" ELSE "migrate" IN
        op' = [op EXCEPT ![o] = Begin(fn, "init_create", 0, 1)]
    /\ UNCHANGED <<indices, alias, blocked, contents>>
    /\ UNCHANGED dbVars
InitializeRead(o) ==
    /\ \/ op[o].pc = "idle"
       \/ op[o].fn = "migrate" /\ op[o].pc = "initialize"
    /\ \E current \in get_current_index :
        LET fn == IF op[o].pc = "idle" THEN "initialize" ELSE "migrate" IN
        IF current # 0
        THEN op' = [op EXCEPT ![o] = [Begin(fn, "idle", 0, 0) EXCEPT !.ret = current]]
        ELSE op' = [op EXCEPT ![o] = Begin(fn, "init_create", 0, 1)]
    /\ UNCHANGED <<indices, alias, blocked, contents>>
    /\ UNCHANGED dbVars

\* self.client.indices.create(index=<alias>_v1, ...)
InitializeCreate(o) ==
    /\ op[o].pc = "init_create"
    /\ IF op[o].to \in indices
       THEN /\ Raise(o, "resource_already_exists_exception")
            /\ UNCHANGED <<indices, contents>>
       ELSE /\ indices' = indices \cup {op[o].to}
            /\ contents' = (op[o].to :> {}) @@ contents
            /\ Goto(o, "init_alias")
    /\ UNCHANGED <<alias, blocked>>
    /\ UNCHANGED dbVars

\* self.client.indices.put_alias(index=<alias>_v1, name=self.alias): adds the
\* binding and removes no other.
InitializePutAlias(o) ==
    /\ op[o].pc = "init_alias"
    /\ IF op[o].to \notin indices
       THEN /\ Raise(o, "index_not_found_exception")
            /\ UNCHANGED alias
       ELSE /\ alias' = alias \cup {op[o].to}
            /\ Return(o, op[o].to)
    /\ UNCHANGED <<indices, blocked, contents>>
    /\ UNCHANGED dbVars

\* migrate ---------------------------------------------------------------
\* old_index = self.get_current_index(); if not old_index: return
\* self.initialize(); new_index = <alias>_v<old_version + 1>
MigrateRead(o) ==
    /\ op[o].pc = "idle"
    /\ \E old_index \in get_current_index :
        IF old_index = 0
        THEN op' = [op EXCEPT ![o] = Begin("migrate", "initialize", 0, 0)]
        ELSE /\ old_index < MaxVersion
             /\ op' = [op EXCEPT ![o] =
                           Begin("migrate", "create", old_index, old_index + 1)]
    /\ UNCHANGED <<indices, alias, blocked, contents>>
    /\ UNCHANGED dbVars

\* 1. self.client.indices.create(index=new_index, ...)
MigrateCreateIgnoreExisting(o) ==
    /\ op[o].fn = "migrate"
    /\ op[o].pc = "create"
    /\ indices' = indices \cup {op[o].to}
    /\ contents' = IF op[o].to \in indices THEN contents
                   ELSE (op[o].to :> {}) @@ contents
    /\ Goto(o, "reindex")
    /\ UNCHANGED <<alias, blocked>>
    /\ UNCHANGED dbVars
MigrateCreateNoCopy(o) ==
    /\ op[o].fn = "migrate"
    /\ op[o].pc = "create"
    /\ IF op[o].to \in indices
       THEN /\ Raise(o, "resource_already_exists_exception")
            /\ UNCHANGED <<indices, contents>>
       ELSE /\ indices' = indices \cup {op[o].to}
            /\ contents' = (op[o].to :> {}) @@ contents
            /\ Goto(o, "swap")
    /\ UNCHANGED <<alias, blocked>>
    /\ UNCHANGED dbVars
MigrateCreate(o) ==
    /\ op[o].fn = "migrate"
    /\ op[o].pc = "create"
    /\ IF op[o].to \in indices
       THEN /\ Raise(o, "resource_already_exists_exception")
            /\ UNCHANGED <<indices, contents>>
       ELSE /\ indices' = indices \cup {op[o].to}
            /\ contents' = (op[o].to :> {}) @@ contents
            /\ Goto(o, "reindex")
    /\ UNCHANGED <<alias, blocked>>
    /\ UNCHANGED dbVars

\* 2. self.client.reindex(source=old_index, dest=new_index,
\* wait_for_completion=True): the call returns when every document of the
\* source is in the destination.
reindexNothing(source, dest) == contents[dest]
reindex(source, dest) == contents[dest] \cup contents[source]

MigrateReindex(o) ==
    /\ op[o].fn = "migrate"
    /\ op[o].pc = "reindex"
    /\ IF op[o].from \notin indices \/ op[o].to \notin indices
       THEN /\ Raise(o, "index_not_found_exception")
            /\ UNCHANGED contents
       ELSE /\ contents' = [contents EXCEPT ![op[o].to] =
                                           reindex(op[o].from, op[o].to)]
            /\ Goto(o, "swap")
    /\ UNCHANGED <<indices, alias, blocked>>
    /\ UNCHANGED dbVars

\* 3. self.client.indices.update_aliases(actions=[remove old, add new])
MigrateUpdateAliases(o) ==
    /\ op[o].fn = "migrate"
    /\ op[o].pc = "swap"
    /\ IF op[o].from \notin indices \/ op[o].to \notin indices
       THEN /\ Raise(o, "index_not_found_exception")
            /\ UNCHANGED alias
       ELSE /\ alias' = update_aliases(op[o].from, op[o].to)
            /\ Goto(o, "block")
    /\ UNCHANGED <<indices, blocked, contents>>
    /\ UNCHANGED dbVars

\* 4. self.client.indices.add_block(index=old_index, block="write");
\* return new_index
MigrateAddBlock(o) ==
    /\ op[o].fn = "migrate"
    /\ op[o].pc = "block"
    /\ IF op[o].from \notin indices
       THEN /\ Raise(o, "index_not_found_exception")
            /\ UNCHANGED blocked
       ELSE /\ blocked' = blocked \cup {op[o].from}
            /\ Return(o, op[o].to)
    /\ UNCHANGED <<indices, alias, contents>>
    /\ UNCHANGED dbVars

\* rollback --------------------------------------------------------------
\* current = self.get_current_index(); ValueError when there is none or when
\* its version is <= 1; old_index = <alias>_v<version - 1>
RollbackRead(o) ==
    /\ op[o].pc = "idle"
    /\ \E current \in get_current_index :
        IF current <= 1
        THEN op' = [op EXCEPT ![o] =
                       [Begin("rollback", "idle", current, 0) EXCEPT
                            !.exc = "ValueError"]]
        ELSE op' = [op EXCEPT ![o] =
                       Begin("rollback", "exists", current, current - 1)]
    /\ UNCHANGED <<indices, alias, blocked, contents>>
    /\ UNCHANGED dbVars

\* if not self.client.indices.exists(index=old_index): raise ValueError
RollbackExistsNoCheck(o) ==
    /\ op[o].fn = "rollback"
    /\ op[o].pc = "exists"
    /\ Goto(o, "unblock")
    /\ UNCHANGED <<indices, alias, blocked, contents>>
    /\ UNCHANGED dbVars
RollbackExists(o) ==
    /\ op[o].fn = "rollback"
    /\ op[o].pc = "exists"
    /\ IF op[o].to \notin indices
       THEN Raise(o, "ValueError")
       ELSE Goto(o, "unblock")
    /\ UNCHANGED <<indices, alias, blocked, contents>>
    /\ UNCHANGED dbVars

\* self.client.indices.put_settings(index=old_index,
\* settings={"index.blocks.write": False})
RollbackPutSettingsKeepsBlock(o) ==
    /\ op[o].fn = "rollback"
    /\ op[o].pc = "unblock"
    /\ IF op[o].to \notin indices
       THEN Raise(o, "index_not_found_exception")
       ELSE Goto(o, "swap")
    /\ UNCHANGED <<indices, alias, blocked, contents>>
    /\ UNCHANGED dbVars
RollbackPutSettings(o) ==
    /\ op[o].fn = "rollback"
    /\ op[o].pc = "unblock"
    /\ IF op[o].to \notin indices
       THEN /\ Raise(o, "index_not_found_exception")
            /\ UNCHANGED blocked
       ELSE /\ blocked' = blocked \ {op[o].to}
            /\ Goto(o, "swap")
    /\ UNCHANGED <<indices, alias, contents>>
    /\ UNCHANGED dbVars

\* self.client.indices.update_aliases(actions=[remove current, add old]);
\* return old_index
RollbackUpdateAliases(o) ==
    /\ op[o].fn = "rollback"
    /\ op[o].pc = "swap"
    /\ IF op[o].from \notin indices \/ op[o].to \notin indices
       THEN /\ Raise(o, "index_not_found_exception")
            /\ UNCHANGED alias
       ELSE /\ alias' = update_aliases(op[o].from, op[o].to)
            /\ Return(o, op[o].to)
    /\ UNCHANGED <<indices, blocked, contents>>
    /\ UNCHANGED dbVars

\* delete_old_versions ---------------------------------------------------
\* The values of keep_latest an operator passes (es-cleanup --keep N).
KeepLatest == 0..2

\* current = self.get_current_index(); if not current: return [];
\* for v in range(1, current_version - keep_latest + 1): with an empty range
\* the method returns at once.
CleanupRead(o, keep_latest) ==
    /\ op[o].pc = "idle"
    /\ \E current \in get_current_index :
        IF current = 0 \/ current - keep_latest < 1
        THEN op' = [op EXCEPT ![o] =
                       Begin("delete_old_versions", "idle", current,
                             current - keep_latest)]
        ELSE op' = [op EXCEPT ![o] =
                       [Begin("delete_old_versions", "delete", current,
                              current - keep_latest) EXCEPT !.v = 1]]
    /\ UNCHANGED <<indices, alias, blocked, contents>>
    /\ UNCHANGED dbVars

\* self.client.indices.delete(index=<alias>_v<v>); deleted.append(..); except
\* NotFoundError: pass.  Deleting an index takes its alias bindings, its
\* blocks and its documents with it.  After the last v: return deleted.
CleanupDeleteStopEarly(o) ==
    /\ op[o].fn = "delete_old_versions"
    /\ op[o].pc = "delete"
    /\ LET v == op[o].v
           gone == IF v \in indices THEN op[o].deleted \cup {v} ELSE op[o].deleted
       IN /\ indices' = indices \ {v}
          /\ alias' = alias \ {v}
          /\ blocked' = blocked \ {v}
          /\ contents' = [w \in indices \ {v} |-> contents[w]]
          /\ op' = [op EXCEPT ![o].deleted = gone,
                              ![o].v = v + 1,
                              ![o].pc = IF v + 1 >= op[o].to THEN "idle" ELSE "delete"]
    /\ UNCHANGED dbVars
CleanupDelete(o) ==
    /\ op[o].fn = "delete_old_versions"
    /\ op[o].pc = "delete"
    /\ LET v == op[o].v
           gone == IF v \in indices THEN op[o].deleted \cup {v} ELSE op[o].deleted
       IN /\ indices' = indices \ {v}
          /\ alias' = alias \ {v}
          /\ blocked' = blocked \ {v}
          /\ contents' = [w \in indices \ {v} |-> contents[w]]
          /\ op' = [op EXCEPT ![o].deleted = gone,
                              ![o].v = v + 1,
                              ![o].pc = IF v + 1 > op[o].to THEN "idle" ELSE "delete"]
    /\ UNCHANGED dbVars

\* delete_all -------------------------------------------------------------
\* for v in range(1, 100): if self.client.indices.exists(index=<alias>_v<v>):
\* ... else: break.  The loop ends at the first version that has no index;
\* the call returns what it deleted so far.
DeleteAllExists(o) ==
    /\ \/ op[o].pc = "idle"
       \/ op[o].fn = "delete_all" /\ op[o].pc = "exists"
    /\ LET loop == IF op[o].pc = "idle"
                   THEN [Begin("delete_all", "exists", 0, 0) EXCEPT !.v = 1]
                   ELSE op[o]
       IN op' = [op EXCEPT ![o] =
                     [loop EXCEPT !.pc = IF loop.v \in indices THEN "delete"
                                                              ELSE "idle"]]
    /\ UNCHANGED <<indices, alias, blocked, contents>>
    /\ UNCHANGED dbVars

\* self.client.indices.delete(index=index_name); deleted.append(index_name);
\* except Exception: break
DeleteAllDelete(o) ==
    /\ op[o].fn = "delete_all"
    /\ op[o].pc = "delete"
    /\ LET v == op[o].v IN
        IF v \notin indices
        THEN /\ Goto(o, "idle")
             /\ UNCHANGED <<indices, alias, blocked, contents>>
        ELSE /\ indices' = indices \ {v}
             /\ alias' = alias \ {v}
             /\ blocked' = blocked \ {v}
             /\ contents' = [w \in indices \ {v} |-> contents[w]]
             /\ op' = [op EXCEPT ![o].deleted = @ \cup {v},
                                 ![o].v = v + 1,
                                 ![o].pc = "exists"]
    /\ UNCHANGED dbVars

\* ESClient.index_document_with_enhancements / bulk_index: the document is
\* written to the alias.  The backend takes the write when the alias resolves
\* to one index and that index is not write-blocked, and rejects it otherwise.
IndexDocument(d) ==
    /\ \E w \in alias :
        /\ alias = {w}
        /\ w \notin blocked
        /\ contents' = [contents EXCEPT ![w] = @ \cup {d}]
    /\ UNCHANGED <<indices, alias, blocked, op>>
    /\ UNCHANGED dbVars

\* bulk_sql_to_es ---------------------------------------------------------
\* fetch_documents_with_enhancements(document_ids): "if document_ids:" adds
\* WHERE id IN (...); None and the empty list both leave the SELECT without a
\* WHERE clause.  given tells a list from None.
fetch_documents_with_enhancements(given, document_ids) ==
    IF given /\ document_ids # {}
    THEN documents \cap document_ids
    ELSE documents

\* bulk_sql_to_es(document_ids), one call at a time: fetch; return 0 when
\* nothing was fetched; es.ensure_index() (initialize); es.bulk_index(...)
\* writes each fetched document through the alias and counts the writes the
\* backend took (raise_on_error=False); es.refresh(); return count.
CallBulkSqlToEs(given, document_ids) ==
    LET docs == fetch_documents_with_enhancements(given, document_ids)
        arg == [given |-> given, document_ids |-> document_ids]
        create == docs # {} /\ alias = {}
        target == IF create THEN {1} ELSE alias
        taken == \E w \in target : target = {w} /\ w \notin blocked
        sent == IF taken THEN docs ELSE {}
    IN /\ IF create /\ 1 \in indices
          THEN /\ last' = [op |-> "bulk_sql_to_es", arg |-> arg, before |-> NoRow,
                           ret |-> [count |-> 0, indexed |-> {}],
                           exc |-> "resource_already_exists_exception"]
               /\ UNCHANGED <<indices, alias, contents>>
          ELSE /\ indices' = IF create THEN indices \cup {1} ELSE indices
               /\ alias' = IF docs = {} THEN alias ELSE target
               /\ contents' =
                      [w \in indices' |->
                          IF w \in target /\ taken
                          THEN (IF w \in indices THEN contents[w] ELSE {}) \cup sent
                          ELSE contents[w]]
               /\ last' = [op |-> "bulk_sql_to_es", arg |-> arg, before |-> NoRow,
                           ret |-> [count |-> Cardinality(sent), indexed |-> sent],
                           exc |-> NULL]
       /\ UNCHANGED <<blocked, op>>
       /\ UNCHANGED <<documents, pending_enhancements, seq, enhancements, enh_seq,
                      now, txn, pc, pending, claim_count, set_calls, doc_seq,
                      run>>

\* The IndexManager methods of the operators in O, call by call.
IndexAdmin(O) ==
    \/ \E o \in O : InitializeRead(o)
    \/ \E o \in O : InitializeCreate(o)
    \/ \E o \in O : InitializePutAlias(o)
    \/ \E o \in O : MigrateRead(o)
    \/ \E o \in O : MigrateCreate(o)
    \/ \E o \in O : MigrateReindex(o)
    \/ \E o \in O : MigrateUpdateAliases(o)
    \/ \E o \in O : MigrateAddBlock(o)
    \/ \E o \in O : RollbackRead(o)
    \/ \E o \in O : RollbackExists(o)
    \/ \E o \in O : RollbackPutSettings(o)
    \/ \E o \in O : RollbackUpdateAliases(o)
    \/ \E o \in O, keep_latest \in KeepLatest : CleanupRead(o, keep_latest)
    \/ \E o \in O : CleanupDelete(o)
    \/ \E o \in O : DeleteAllExists(o)
    \/ \E o \in O : DeleteAllDelete(o)

\* ------------------------------------------------------------ the whole system
\* The robots R and the enqueuing CLI invocations C running side by side.
System(R, C) ==
    \/ Tick
    \/ RegisterDocument
    \/ \E c \in C, d \in Docs, t \in EnhancementType : EnqueueExecute(c, d, t)
    \/ \E c \in C : EnqueueCommit(c)
    \/ \E p \in R : ClaimExecute(p)
    \/ \E p \in R : ClaimCommit(p)
    \/ \E p \in R : RobotHandle(p)
    \/ \E p \in R : RobotStore(p)
    \/ \E p \in R : RobotComplete(p)

\* The pdf-extractor fleet and the enqueuers.
Next == System(Extractors, Clients)

Spec == Init /\ [][Next]_vars

\* The db functions called directly, one call at a time.
NextApi ==
    \/ Tick
    \/ RegisterDocument
    \/ \E d \in Docs, t \in EnhancementType : CallEnqueue(d, t)
    \/ \E t \in EnhancementType : CallClaim(t)
    \/ \E i \in 1..MaxSeq, s \in PendingEnhancementStatus,
          e \in {NULL, "boom"} : CallSetStatus(i, s, e)

SpecApi == Init /\ [][NextApi]_vars

\* One runtime of each robot and one enqueuer, with the failures of the store
\* calls and with documents deleted under them.
NextRuntime ==
    \/ System({"x1", "s1"}, {"c1"})
    \/ \E p \in {"x1", "s1"} : RobotException(p)
    \/ \E d \in Docs : DeleteDocument(d)

SpecRuntime == Init /\ [][NextRuntime]_vars

\* One operator of the search index, one method after the other, and the
\* indexer writing through the alias.
NextIndex ==
    \/ IndexAdmin({"o1"})
    \/ \E d \in Docs : IndexDocument(d)

SpecIndex == Init /\ [][NextIndex]_vars

\* The migration cycle: documents are indexed while <alias>_v1 is the only
\* index, then an operator migrates and rolls back with no write in between.
LoadDocument(d) ==
    /\ indices = {1}
    /\ IndexDocument(d)

NextCycle ==
    \/ InitializeRead("o1")
    \/ InitializeCreate("o1")
    \/ InitializePutAlias("o1")
    \/ MigrateRead("o1")
    \/ MigrateCreate("o1")
    \/ MigrateReindex("o1")
    \/ MigrateUpdateAliases("o1")
    \/ MigrateAddBlock("o1")
    \/ RollbackRead("o1")
    \/ RollbackExists("o1")
    \/ RollbackPutSettings("o1")
    \/ RollbackUpdateAliases("o1")
    \/ \E d \in Docs : LoadDocument(d)

SpecCycle == Init /\ [][NextCycle]_vars

\* The pdf-extractor fleet and an enqueuer, with runtimes terminated while
\* they hold a unit.
NextCrash ==
    \/ System(Extractors, {"c1"})
    \/ \E p \in Extractors : Terminate(p)

SpecCrash == Init /\ [][NextCrash]_vars

\* One runtime, of either robot, started with run_loop, and one enqueuer.  The
\* loop calls process_one; nothing else does.
LoopRobots == {"x1", "s1"}

LoopStep(p) ==
    \/ LoopTop(p)
    \/ run[p].at = "call" /\ ClaimExecute(p)
    \/ ClaimCommit(p)
    \/ RobotHandle(p)
    \/ RobotStore(p)
    \/ RobotComplete(p)
    \/ LoopProcessed(p)
    \/ LoopEmpty(p)
    \/ LoopSleep(p)

NextLoop ==
    \/ RegisterDocument
    \/ \E d \in Docs, t \in EnhancementType : EnqueueExecute("c1", d, t)
    \/ EnqueueCommit("c1")
    \/ \E p \in LoopRobots, max_iterations \in {NoLimit} \cup (0..MaxIterations) :
           /\ \A q \in LoopRobots : run[q].at = "off"
           /\ LoopStart(p, max_iterations)
    \/ \E p \in LoopRobots : LoopStep(p)

\* A running process takes its next step, and an open transaction commits.
SpecLoop ==
    /\ Init
    /\ [][NextLoop]_vars
    /\ \A p \in LoopRobots : WF_vars(LoopStep(p))
    /\ WF_vars(EnqueueCommit("c1"))

\* A fleet of pdf-extractor runtimes in bounded mode draining a queue that was
\* filled before the first of them started: nothing is enqueued while a
\* runtime runs, and no runtime is terminated.  The store calls may fail and
\* documents may be deleted; the pdf-extractor catches that and goes on.
AllLoopsOff == \A q \in Robots : run[q].at = "off"

DrainStep(p) ==
    \/ LoopTop(p)
    \/ run[p].at = "call" /\ ClaimExecute(p)
    \/ ClaimCommit(p)
    \/ RobotHandle(p)
    \/ RobotStore(p)
    \/ RobotComplete(p)
    \/ RobotException(p)
    \/ LoopProcessed(p)
    \/ LoopEmpty(p)

NextDrain ==
    \/ AllLoopsOff /\ RegisterDocument
    \/ \E d \in Docs : DeleteDocument(d)
    \/ \E d \in Docs, t \in EnhancementType :
           AllLoopsOff /\ EnqueueExecute("c1", d, t)
    \/ EnqueueCommit("c1")
    \/ \E p \in Extractors, max_iterations \in 0..MaxIterations :
           /\ txn["c1"] = NoTxn
           /\ LoopStart(p, max_iterations)
    \/ \E p \in Extractors : DrainStep(p)

SpecDrain == Init /\ [][NextDrain]_vars

\* The projection: the catalog, an operator of the search index and bulk
\* reprojections called between the operator's backend calls.
NextProjection ==
    \/ RegisterDocument
    \/ \E d \in Docs : DeleteDocument(d)
    \/ IndexAdmin({"o1"})
    \/ \E given \in BOOLEAN, document_ids \in SUBSET Docs :
           CallBulkSqlToEs(given, document_ids)

SpecProjection == Init /\ [][NextProjection]_vars

\* Two operators of the search index at once.
NextOperators == IndexAdmin(Operators)

SpecOperators == Init /\ [][NextOperators]_vars

\* The artifact store called directly, one put at a time.
NextStore ==
    \/ Tick
    \/ RegisterDocument
    \/ \E d \in Docs, t \in EnhancementType, content \in Payloads, r \in RobotIds :
           CallPut(d, t, content, r)

SpecStore == Init /\ [][NextStore]_vars

\* ================================================================== claims
InFlight == {"PENDING", "PROCESSING", "IMPORTING", "INDEXING"}

\* A robot holds the row its claim returned until it has written the status
\* that ends process_one.
Holding(p) == pc[p] \in {"claimed", "importing", "stored"}

\* The committed PENDING rows of type t.
PendingOfType(t) ==
    {i \in Ids : pending_enhancements[i].status = "PENDING"
                 /\ pending_enhancements[i].enhancement_type = t}

\* C1: two fetch_next_pending calls of the same type that are in flight at the
\* same time (each between its statement and its commit) have locked different
\* rows; with a single PENDING row only one of them can be in flight, the
\* other has returned None.
C1_ConcurrentClaimsDistinct ==
    \A p, q \in Robots :
        (p # q /\ pc[p] = "claim" /\ pc[q] = "claim") => txn[p].id # txn[q].id

C1_Witness ==
    /\ pc["x1"] = "claim"
    /\ pc["x2"] = "claim"
    /\ txn["x1"].id # txn["x2"].id
    /\ RobotType("x1") = RobotType("x2")

\* C2: in every state, two robots that hold a claimed row (from the return of
\* their claim to their final status write) hold different rows, whatever
\* enqueues and claims ran in between.
C2_OneHolderPerRow ==
    \A p, q \in Robots :
        (p # q /\ Holding(p) /\ Holding(q)) => pending[p].id # pending[q].id

C2_Witness ==
    /\ pc["x1"] = "importing"
    /\ pc["x2"] = "claimed"
    /\ pending["x1"].id # pending["x2"].id
    /\ \E c \in Clients : pc[c] = "enqueue" /\ txn[c].id = pending["x1"].id

\* C3: every change of a row's status is an edge of the transition table
\* (and a new row starts PENDING).
C3_StatusFollowsTransitions ==
    [][\A i \in DOMAIN pending_enhancements' :
          IF i \in Ids
          THEN \/ pending_enhancements'[i].status = pending_enhancements[i].status
               \/ can_transition_to(pending_enhancements[i].status,
                                    pending_enhancements'[i].status)
          ELSE pending_enhancements'[i].status = "PENDING"]_vars

\* C4: update_pending_status with a target the table does not allow from the
\* row's current status raises StateTransitionError and leaves the status as
\* it was.
C4_IllegalSetStatusRejected ==
    (/\ last.op = "update_pending_status"
     /\ ~can_transition_to(last.before.status, last.arg))
    => /\ last.exc = "StateTransitionError"
       /\ pending_enhancements[last.before.id].status = last.before.status

\* C5: the step on which fetch_next_pending returns a row to a robot has moved
\* that row, and no other, from PENDING to PROCESSING with attempts one higher,
\* and the returned record is the row as it now stands.
C5_ClaimMovesRow ==
    [][\A p \in Robots :
          (pc[p] = "claim" /\ pc'[p] = "claimed") =>
            LET r == pending'[p] IN
            /\ r.id \in Ids
            /\ pending_enhancements[r.id].status = "PENDING"
            /\ r.status = "PROCESSING"
            /\ r.attempts = pending_enhancements[r.id].attempts + 1
            /\ r = Rec(r.id, pending_enhancements'[r.id])
            /\ DOMAIN pending_enhancements' = Ids
            /\ \A j \in Ids \ {r.id} :
                   pending_enhancements'[j] = pending_enhancements[j]]_vars

C5_Witness ==
    /\ pc["x1"] = "claimed"
    /\ pending["x1"].status = "PROCESSING"
    /\ pending["x1"].attempts = 1
    /\ pending_enhancements[pending["x1"].id].status = "PROCESSING"

\* C6: no two rows of pending_enhancements share (document_id,
\* enhancement_type).
C6_UniqueKey ==
    \A i, j \in Ids :
        (/\ pending_enhancements[i].document_id = pending_enhancements[j].document_id
         /\ pending_enhancements[i].enhancement_type
                = pending_enhancements[j].enhancement_type)
        => i = j

\* Two enqueues of one key at once: one has re-enqueued a finished unit and
\* not yet committed, the other has just committed an enqueue.
C6_Witness ==
    /\ pc["c1"] = "enqueue"
    /\ ~txn["c1"].insert
    /\ pending_enhancements[txn["c1"].id].status \in Revivable
    /\ Cardinality(Ids) = 2
    /\ seq = 3

\* C7: create_pending_enhancement on a key whose row is COMPLETED, FAILED,
\* EXPIRED, DISCARDED or INDEXING_FAILED returns that row's id and leaves it
\* PENDING, the only row of its key; on a key without a row it returns the id
\* of a new PENDING row.
C7_EnqueueRevives ==
    last.op = "create_pending_enhancement" =>
        /\ last.ret.id \in Ids
        /\ Conflict(last.arg[1], last.arg[2]) = {last.ret.id}
        /\ last.before # NoRow =>
              /\ last.ret.id = last.before.id
              /\ last.before.status \in Revivable =>
                     pending_enhancements[last.ret.id].status = "PENDING"
        /\ last.before = NoRow =>
              /\ pending_enhancements[last.ret.id].status = "PENDING"
              /\ last.ret.id = seq

C7_Witness ==
    /\ last.op = "create_pending_enhancement"
    /\ last.before # NoRow
    /\ last.before.status = "EXPIRED"
    /\ pending_enhancements[last.ret.id].status = "PENDING"

\* C8: create_pending_enhancement on a key whose row is PENDING, PROCESSING,
\* IMPORTING or INDEXING leaves every column of the row as it was.
C8_EnqueueLeavesInFlightRow ==
    (/\ last.op = "create_pending_enhancement"
     /\ last.before # NoRow
     /\ last.before.status \in InFlight)
    => Rec(last.before.id, pending_enhancements[last.before.id]) = last.before

\* C9: a row's attempts is the number of times fetch_next_pending has returned
\* it: no enqueue and no status write changes it.
C9_AttemptsCountClaims ==
    \A i \in Ids : pending_enhancements[i].attempts = claim_count[i]

C9_Witness ==
    \E i \in Ids :
        /\ pending_enhancements[i].attempts = 2
        /\ pending_enhancements[i].status = "PROCESSING"

\* C10 as claimed: when no other claimer holds a lock, the row the claim takes
\* is a PENDING row of its type with the least created_at among the PENDING
\* rows of that type.
C10_OldestUnlessClaimerLocks ==
    [][\A p \in Robots :
          (/\ pc[p] = "idle"
           /\ pc'[p] = "claim"
           /\ \A q \in Robots \ {p} : txn[q].id = 0) =>
            /\ txn'[p].id \in PendingOfType(RobotType(p))
            /\ \A j \in PendingOfType(RobotType(p)) :
                   pending_enhancements[txn'[p].id].created_at
                       <= pending_enhancements[j].created_at]_vars

\* C10 as amended: the row the claim takes is always a PENDING row of its
\* type; it has the least created_at among the PENDING rows of that type when
\* no other transaction, claim or enqueue, holds a lock on one of them.
C10_OldestUnlessLocked ==
    [][\A p \in Robots :
          (pc[p] = "idle" /\ pc'[p] = "claim") =>
            /\ txn'[p].id \in PendingOfType(RobotType(p))
            /\ (\A q \in Procs \ {p} : txn[q].id \notin PendingOfType(RobotType(p)))
               => \A j \in PendingOfType(RobotType(p)) :
                      pending_enhancements[txn'[p].id].created_at
                          <= pending_enhancements[j].created_at]_vars

\* A claim in flight on the older of two PENDING full_text rows, with a
\* PENDING row of the other type in the table.
C10_Witness ==
    /\ pc["x1"] = "claim"
    /\ \A q \in Procs \ {"x1"} : txn[q].id = 0
    /\ \E j \in PendingOfType("full_text") \ {txn["x1"].id} :
           pending_enhancements[j].created_at
               > pending_enhancements[txn["x1"].id].created_at
    /\ PendingOfType("paperpile_metadata") # {}

\* C11: a fetch_next_pending(t) called when no row of type t is PENDING (the
\* table is empty, or holds only rows of the other type, or only rows of type t
\* in other statuses) returns None and leaves every row as it was.
C11_AbsentWhenNoPending ==
    [][\A t \in EnhancementType :
          (/\ PendingOfType(t) = {}
           /\ last' # last
           /\ last'.op = "fetch_next_pending"
           /\ last'.arg = t) =>
            /\ last'.ret = NoRow
            /\ pending_enhancements' = pending_enhancements
            /\ claim_count' = claim_count]_vars

\* A claim of full_text has returned None while a full_text row is PROCESSING
\* and a paperpile_metadata row is PENDING.
C11_Witness ==
    /\ last.op = "fetch_next_pending"
    /\ last.arg = "full_text"
    /\ last.ret = NoRow
    /\ PendingOfType("paperpile_metadata") # {}
    /\ \E i \in Ids : /\ pending_enhancements[i].enhancement_type = "full_text"
                      /\ pending_enhancements[i].status = "PROCESSING"

\* C12: no two artifacts share (document_id, enhancement_type, robot_id); a
\* create_enhancement on a key that has an artifact overwrites that artifact's
\* content and creation time and adds no row, one on a new key adds one row,
\* and either way every other artifact, among them those of the same document
\* and type from another robot, stays as it was.
C12_ArtifactKeyUnique ==
    /\ [](\A i, j \in DOMAIN enhancements :
            (/\ enhancements[i].document_id = enhancements[j].document_id
             /\ enhancements[i].enhancement_type = enhancements[j].enhancement_type
             /\ enhancements[i].robot_id = enhancements[j].robot_id) => i = j)
    /\ [][enh_seq' # enh_seq =>
            LET d == last'.arg[1]
                t == last'.arg[2]
                r == last'.arg[3]
                i == last'.ret.id
                old == {j \in DOMAIN enhancements :
                           /\ enhancements[j].document_id = d
                           /\ enhancements[j].enhancement_type = t
                           /\ enhancements[j].robot_id = r}
            IN /\ DOMAIN enhancements' = DOMAIN enhancements \cup {i}
               /\ old # {} => old = {i}
               /\ old = {} => i \notin DOMAIN enhancements
               /\ enhancements'[i] =
                      [document_id |-> d, enhancement_type |-> t, robot_id |-> r,
                       content |-> _sanitize_for_jsonb(last'.arg[4]),
                       created_at |-> now]
               /\ \A j \in DOMAIN enhancements \ {i} :
                      enhancements'[j] = enhancements[j]]_vars

\* A put has overwritten an artifact with another content at a later time,
\* next to an artifact of the same document and type from the other robot.
C12_Witness ==
    /\ last.op = "create_enhancement"
    /\ last.before # NoRow
    /\ last.before.content # enhancements[last.ret.id].content
    /\ last.before.created_at < enhancements[last.ret.id].created_at
    /\ \E j \in DOMAIN enhancements \ {last.ret.id} :
           /\ enhancements[j].document_id = enhancements[last.ret.id].document_id
           /\ enhancements[j].enhancement_type
                  = enhancements[last.ret.id].enhancement_type

\* The artifacts of document d and type t, and those among them that robot p
\* wrote in the attempt it is in (a run's content carries its attempt).
ArtifactsOf(d, t) ==
    {j \in DOMAIN enhancements : /\ enhancements[j].document_id = d
                                 /\ enhancements[j].enhancement_type = t}
WrittenInAttempt(p) ==
    {j \in ArtifactsOf(pending[p].document_id, RobotType(p)) :
        /\ enhancements[j].robot_id = ROBOT_ID(p)
        /\ enhancements[j].content = Content(p)}

\* C13: a robot whose handler produced content writes IMPORTING on its
\* PROCESSING unit, then the artifact while the unit is IMPORTING, then
\* COMPLETED on the IMPORTING unit; no artifact is written and no unit is
\* completed in any other way; and when the completed run was the unit's first
\* (attempts = 1) the document then has exactly one artifact of that type.
C13_ProducedOrder ==
    [][/\ \A p \in Robots :
            LET i == pending[p].id IN
            /\ (pc[p] = "claimed" /\ pc'[p] = "importing") =>
                  /\ i \in Ids
                  /\ pending_enhancements[i].status = "PROCESSING"
                  /\ pending_enhancements'[i].status = "IMPORTING"
                  /\ enhancements' = enhancements
            /\ (pc[p] = "importing" /\ pc'[p] = "stored") =>
                  /\ i \in Ids
                  /\ pending_enhancements[i].status = "IMPORTING"
                  /\ pending_enhancements' = pending_enhancements
                  /\ \E j \in DOMAIN enhancements' :
                         enhancements'[j] =
                             [document_id |-> pending[p].document_id,
                              enhancement_type |-> RobotType(p),
                              robot_id |-> ROBOT_ID(p),
                              content |-> Content(p), created_at |-> now]
            /\ (pc[p] = "stored" /\ pc'[p] = "idle" /\ i \in Ids) =>
                  /\ pending_enhancements[i].status = "IMPORTING"
                  /\ pending_enhancements'[i].status \in {"COMPLETED", "FAILED"}
                  /\ enhancements' = enhancements
                  /\ (/\ pending_enhancements'[i].status = "COMPLETED"
                      /\ pending[p].attempts = 1) =>
                        /\ pending_enhancements'[i].attempts = 1
                        /\ Cardinality(ArtifactsOf(pending[p].document_id,
                                                   RobotType(p))) = 1
       /\ (enhancements' # enhancements /\ documents' = documents) =>
              \E p \in Robots :
                  /\ pc[p] = "importing"
                  /\ pc'[p] = "stored"
                  /\ pending[p].id \in Ids
                  /\ pending_enhancements[pending[p].id].status = "IMPORTING"
       /\ \A i \in Ids \cap DOMAIN pending_enhancements' :
              (/\ pending_enhancements'[i].status = "COMPLETED"
               /\ pending_enhancements[i].status # "COMPLETED") =>
                  \E p \in Robots : /\ pc[p] = "stored"
                                    /\ pending[p].id = i
                                    /\ pending_enhancements[i].status = "IMPORTING"
      ]_vars

\* Both robots have completed the first run of a unit of document 1, each
\* leaving its one artifact.
C13_Witness ==
    \A t \in EnhancementType :
        \E i \in Ids :
            /\ pending_enhancements[i].enhancement_type = t
            /\ pending_enhancements[i].status = "COMPLETED"
            /\ pending_enhancements[i].attempts = 1
            /\ Cardinality(ArtifactsOf(pending_enhancements[i].document_id, t)) = 1
            /\ \A j \in ArtifactsOf(pending_enhancements[i].document_id, t) :
                   enhancements[j].content = <<1>>

\* C14: the step on which the pdf-extractor ends an attempt with its unit
\* FAILED leaves a last_error, and when that is an extraction failure the step
\* writes no artifact and the attempt has written or overwritten none.
C14_ExtractionFailureWritesNoArtifact ==
    [][\A p \in Extractors :
          LET i == pending[p].id IN
          (/\ Holding(p)
           /\ pc'[p] = "idle"
           /\ i \in Ids
           /\ pending_enhancements'[i].status = "FAILED") =>
            /\ pending_enhancements'[i].last_error # NULL
            /\ pending_enhancements'[i].last_error \in ExtractorFailures =>
                  /\ enhancements' = enhancements
                  /\ WrittenInAttempt(p) = {}]_vars

\* A second attempt on a unit has failed in extraction, and the artifact of the
\* first attempt is still there as the first attempt wrote it.
C14_Witness ==
    \E i \in Ids :
        /\ pending_enhancements[i].enhancement_type = "full_text"
        /\ pending_enhancements[i].status = "FAILED"
        /\ pending_enhancements[i].last_error = "Empty text extracted"
        /\ pending_enhancements[i].attempts = 2
        /\ \E j \in ArtifactsOf(pending_enhancements[i].document_id, "full_text") :
               enhancements[j].content = <<1>>

\* C15: paperpile-sync, on a claimed unit whose document is in the catalog but
\* has no manifest entry, moves the unit in one step from PROCESSING to
\* DISCARDED with last_error "No manifest entry found" and ends the attempt,
\* without a step in IMPORTING and without an artifact.
C15_NoManifestDiscards ==
    [][\A p \in Syncers :
          LET i == pending[p].id IN
          (/\ pc[p] = "claimed"
           /\ pc'[p] # "claimed"
           /\ pending[p].document_id \in documents
           /\ pending[p].document_id \notin manifest_map) =>
            /\ i \in Ids
            /\ pending_enhancements[i].status = "PROCESSING"
            /\ pending_enhancements'[i].status = "DISCARDED"
            /\ pending_enhancements'[i].last_error = "No manifest entry found"
            /\ pc'[p] = "idle"
            /\ enhancements' = enhancements
            /\ WrittenInAttempt(p) = {}]_vars

C15_Witness ==
    /\ pc["s1"] = "idle"
    /\ \E i \in Ids :
        /\ pending_enhancements[i].enhancement_type = "paperpile_metadata"
        /\ pending_enhancements[i].document_id \notin manifest_map
        /\ pending_enhancements[i].status = "DISCARDED"
        /\ pending_enhancements[i].last_error = "No manifest entry found"
        /\ pending_enhancements[i].attempts = 1
        /\ ArtifactsOf(pending_enhancements[i].document_id,
                       "paperpile_metadata") = {}

\* C16: the status a robot writes, on the step that ends its attempt on a unit
\* whose document it could not load, is DISCARDED.
C16_VanishedDocumentDiscards ==
    [][\A p \in Robots :
          (pc[p] = "claimed" /\ pc'[p] = "idle" /\ DocumentMissing(p)) =>
              DocumentNotFoundStatus(p) = "DISCARDED"]_vars

\* C17: no robot's loop is ever ended by an exception raised while it handles
\* a claimed unit: the exception becomes a FAILED write and the loop goes on.
C17_ExceptionsBecomeFailed ==
    \A p \in Robots : pc[p] # "crashed"

\* C18 as claimed: while an operator is inside migrate or rollback (it has made
\* the method's first backend call and not yet returned), the alias is bound
\* to exactly one index.
C18_OneBindingDuringMigrateOrRollback ==
    \A o \in Operators :
        (op[o].fn \in {"migrate", "rollback"} /\ op[o].pc # "idle")
            => Cardinality(alias) = 1

\* C18 as amended: the same, for a migrate or rollback that found the alias
\* bound when it started (a migrate that found no alias runs initialize, and
\* the alias has no binding until initialize has put it).
C18_OneBindingWhenBound ==
    \A o \in Operators :
        (/\ op[o].fn \in {"migrate", "rollback"}
         /\ op[o].pc # "idle"
         /\ op[o].from # 0)
            => Cardinality(alias) = 1

\* The second migrate has swapped the alias from v2 to v3 and has not yet
\* write-blocked v2.
C18_Witness ==
    /\ op["o1"].fn = "migrate"
    /\ op["o1"].pc = "block"
    /\ op["o1"].from = 2
    /\ alias = {3}
    /\ indices = {1, 2, 3}

\* C19: the alias is bound to at most one index in every reachable state of
\* two operators running initialize, migrate, rollback and cleanup at once.
C19_AtMostOneBinding == Cardinality(alias) <= 1

\* C20: a migrate that found the alias at v<k> creates v<k+1> (empty, alias
\* untouched), then copies every document of v<k> into it (alias untouched),
\* then moves the alias from v<k> to v<k+1> in one step, then write-blocks
\* v<k> and returns v<k+1>; the alias moves on no other step of the method.  A
\* migrate that found no alias copies nothing and returns with the alias on v1.
C20_MigrateOrder ==
    [][\A o \in Operators :
          LET m == op[o]
              n == op'[o]
          IN (m.fn = "migrate" /\ m.pc # "idle" /\ n # m) =>
             IF m.from = 0
             THEN /\ \A w \in indices : w \in indices' /\ contents'[w] = contents[w]
                  /\ \A w \in indices' \ indices : contents'[w] = {}
                  /\ (n.pc = "idle" /\ n.exc = NULL) => (alias' = {1} /\ n.ret = 1)
             ELSE /\ m.to = m.from + 1
                  /\ m.pc = "create" =>
                        /\ alias' = alias
                        /\ blocked' = blocked
                        /\ n.exc = NULL =>
                              /\ n.pc = "reindex"
                              /\ m.to \notin indices
                              /\ indices' = indices \cup {m.to}
                              /\ contents'[m.to] = {}
                  /\ m.pc = "reindex" =>
                        /\ n.pc = "swap"
                        /\ contents'[m.to] = contents[m.from]
                        /\ contents'[m.from] = contents[m.from]
                        /\ alias' = alias
                        /\ alias = {m.from}
                  /\ m.pc = "swap" =>
                        /\ n.pc = "block"
                        /\ alias = {m.from}
                        /\ alias' = {m.to}
                        /\ contents' = contents
                        /\ m.from \notin blocked'
                  /\ m.pc = "block" =>
                        /\ n.pc = "idle"
                        /\ n.exc = NULL
                        /\ n.ret = m.to
                        /\ alias' = {m.to}
                        /\ blocked' = blocked \cup {m.from}
                  /\ alias' # alias => m.pc = "swap"]_vars

\* A migrate from v1, holding both documents, has returned v2.
C20_Witness ==
    /\ op["o1"].fn = "migrate"
    /\ op["o1"].pc = "idle"
    /\ op["o1"].exc = NULL
    /\ op["o1"].from = 1
    /\ op["o1"].ret = 2
    /\ alias = {2}
    /\ 1 \in blocked
    /\ contents[1] = Docs
    /\ contents[2] = Docs

\* C21: rollback fails, and leaves the alias binding, the set of indices and
\* every write block as they were, when the alias is absent, when it points at
\* version 1, and when <alias>_v<k-1> does not exist: the call that reads the
\* alias and the call that looks for the previous index raise ValueError and
\* change nothing, and no rollback gets to its put_settings or update_aliases
\* call unless the alias is on a version k > 1 whose predecessor exists.
C21_RollbackFailsUnchanged ==
    /\ [](\A o \in {"o1"} :
            (op[o].fn = "rollback" /\ op[o].pc \in {"unblock", "swap"})
                => /\ alias = {op[o].from}
                   /\ op[o].from > 1
                   /\ op[o].to = op[o].from - 1
                   /\ op[o].to \in indices)
    /\ [][\A o \in {"o1"} :
            /\ (/\ op[o].pc = "idle"
                /\ op'[o] # op[o]
                /\ op'[o].fn = "rollback"
                /\ (alias = {} \/ alias = {1}))
                   => /\ op'[o].pc = "idle"
                      /\ op'[o].exc = "ValueError"
                      /\ UNCHANGED <<alias, indices, blocked>>
            /\ (/\ op[o].fn = "rollback"
                /\ op[o].pc = "exists"
                /\ op'[o] # op[o]
                /\ op[o].to \notin indices)
                   => /\ op'[o].pc = "idle"
                      /\ op'[o].exc = "ValueError"
                      /\ UNCHANGED <<alias, indices, blocked>>
       ]_vars

\* A rollback from v2 has failed because v1 was deleted; the alias is still on
\* v2.
C21_Witness ==
    /\ op["o1"].fn = "rollback"
    /\ op["o1"].pc = "idle"
    /\ op["o1"].exc = "ValueError"
    /\ op["o1"].from = 2
    /\ op["o1"].to = 1
    /\ alias = {2}
    /\ 1 \notin indices

\* C22: with the documents D in <alias>_v1 and no write after the migrate has
\* created its index, D stays what v1 holds, and the index the alias resolves
\* to when a migrate or a rollback has returned holds exactly the documents
\* of v1.
C22_MigrateRollbackKeepDocuments ==
    /\ [](\A o \in {"o1"} :
            (/\ op[o].fn \in {"migrate", "rollback"}
             /\ op[o].pc = "idle"
             /\ op[o].exc = NULL)
                => /\ alias = {op[o].ret}
                   /\ 1 \in indices
                   /\ contents[op[o].ret] = contents[1])
    /\ [][(1 \in indices /\ indices # {1})
            => (1 \in indices' /\ contents'[1] = contents[1])]_vars

\* Two documents were indexed in v1, a migrate took the alias to v2 and the
\* rollback has brought it back to v1.
C22_Witness ==
    /\ op["o1"].fn = "rollback"
    /\ op["o1"].pc = "idle"
    /\ op["o1"].ret = 1
    /\ alias = {1}
    /\ 2 \in indices
    /\ contents[1] = {1, 2}
    /\ contents[2] = {1, 2}

\* C23: cleanup(keep) that finds the alias at <alias>_v<k> visits the versions
\* 1 .. k-keep in turn; each visit deletes that index when it exists and
\* records it, passes over it without failing when it does not, and touches
\* no other index; the call returns when all of 1 .. k-keep have been visited,
\* with exactly the versions it deleted, none of them above k-keep.  With the
\* alias absent, or k-keep < 1, it returns at once and deletes nothing.
C23_CleanupDeletesOldVersions ==
    /\ [](\A o \in {"o1"} :
            (op[o].fn = "delete_old_versions" /\ op[o].pc = "idle")
                => /\ op[o].exc = NULL
                   /\ op[o].deleted \subseteq 1..op[o].to
                   /\ op[o].from # 0 => indices \cap (1..op[o].to) = {}
                   /\ op[o].from = 0 => op[o].deleted = {})
    /\ [][\A o \in {"o1"} :
            /\ (/\ op[o].pc = "idle"
                /\ op'[o] # op[o]
                /\ op'[o].fn = "delete_old_versions")
                   => /\ UNCHANGED <<indices, alias, blocked, contents>>
                      /\ op'[o].deleted = {}
                      /\ IF alias = {}
                         THEN op'[o].from = 0 /\ op'[o].pc = "idle"
                         ELSE /\ op'[o].from \in alias
                              /\ \E keep \in KeepLatest :
                                    op'[o].to = op'[o].from - keep
                              /\ IF op'[o].to >= 1
                                 THEN op'[o].pc = "delete" /\ op'[o].v = 1
                                 ELSE op'[o].pc = "idle"
            /\ (/\ op[o].fn = "delete_old_versions"
                /\ op[o].pc = "delete"
                /\ op'[o] # op[o])
                   => /\ op[o].v \in 1..op[o].to
                      /\ indices' = indices \ {op[o].v}
                      /\ op'[o].deleted = op[o].deleted \cup (indices \cap {op[o].v})
                      /\ op'[o].v = op[o].v + 1
                      /\ op'[o].exc = NULL
                      /\ op'[o].pc = IF op[o].v = op[o].to THEN "idle" ELSE "delete"
       ]_vars

\* A cleanup with keep = 1 and the alias at v3 has returned: v1 was already
\* gone, v2 was deleted and is the one name returned, v3 is left.
C23_Witness ==
    /\ op["o1"].fn = "delete_old_versions"
    /\ op["o1"].pc = "idle"
    /\ op["o1"].from = 3
    /\ op["o1"].to = 2
    /\ op["o1"].deleted = {2}
    /\ indices = {3}
    /\ alias = {3}

\* C24: an initialize that finds the alias bound returns the index it is bound
\* to and changes neither the indices nor the binding; an initialize that
\* finds no alias creates <alias>_v1, binds the alias to it and returns it.
\* Either way the call ends without an error with the alias on the index it
\* returned, so a second initialize changes nothing.
C24_InitializeIdempotent ==
    /\ [](\A o \in {"o1"} :
            (op[o].fn = "initialize" /\ op[o].pc = "idle")
                => /\ op[o].exc = NULL
                   /\ alias = {op[o].ret}
                   /\ op[o].ret \in indices)
    /\ [][\A o \in {"o1"} :
            /\ (/\ op[o].pc = "idle"
                /\ op'[o] # op[o]
                /\ op'[o].fn = "initialize")
                   => /\ UNCHANGED <<indices, alias, blocked, contents>>
                      /\ IF alias # {}
                         THEN op'[o].pc = "idle" /\ op'[o].ret \in alias
                         ELSE op'[o].pc = "init_create" /\ op'[o].to = 1
            /\ (op[o].fn = "initialize" /\ op[o].pc = "init_create" /\ op'[o] # op[o])
                   => /\ alias = {}
                      /\ indices' = indices \cup {1}
                      /\ alias' = alias
                      /\ op'[o].pc = "init_alias"
            /\ (op[o].fn = "initialize" /\ op[o].pc = "init_alias" /\ op'[o] # op[o])
                   => /\ alias = {}
                      /\ alias' = {1}
                      /\ indices' = indices
                      /\ op'[o].pc = "idle"
                      /\ op'[o].ret = 1
       ]_vars

\* An initialize called with the alias on v2 has returned v2 and created
\* nothing.
C24_Witness ==
    /\ op["o1"].fn = "initialize"
    /\ op["o1"].pc = "idle"
    /\ op["o1"].ret = 2
    /\ op["o1"].to = 0
    /\ alias = {2}
    /\ indices = {1, 2}

\* C25: when delete_all has returned, no index <alias>_v<N> exists.
C25_DeleteAllLeavesNoIndex ==
    \A o \in {"o1"} :
        (op[o].fn = "delete_all" /\ op[o].pc = "idle") => indices = {}

\* C26: a bulk reprojection called with a list of document ids indexes only
\* documents whose id is in the list, whatever the list (the empty one
\* included), and returns the number of documents it indexed.
C26_BulkIndexesOnlySubset ==
    (last.op = "bulk_sql_to_es" /\ last.exc = NULL)
        => /\ last.arg.given =>
                  last.ret.indexed \subseteq last.arg.document_ids
           /\ last.ret.count = Cardinality(last.ret.indexed)

\* fetch_documents_with_enhancements hands a document's artifacts over in the
\* order of its SELECT ... ORDER BY document_id, created_at; get_full_text
\* returns the text of the first FULL_TEXT artifact of that list, and the
\* projection writes get_full_text(enhancements) or "".  Among artifacts of
\* one creation time the database may list any first; <<>> stands for "".
get_full_text(d) ==
    LET ft == ArtifactsOf(d, "full_text")
        first == {j \in ft : \A k \in ft :
                     enhancements[j].created_at <= enhancements[k].created_at}
    IN IF ft = {} THEN {<<>>} ELSE {enhancements[j].content : j \in first}

\* C27: the full_text projected for a document is the content of its most
\* recently created FULL_TEXT artifact, and the empty string when it has
\* none.
C27_ProjectsLatestFullText ==
    \A d \in documents :
        LET ft == ArtifactsOf(d, "full_text")
            latest == {j \in ft : \A k \in ft :
                          enhancements[k].created_at <= enhancements[j].created_at}
        IN IF ft = {}
           THEN get_full_text(d) = {<<>>}
           ELSE get_full_text(d) \subseteq {enhancements[j].content : j \in latest}

\* C28: a loop started with max_iterations = N makes at most N process_one
\* calls, never sleeps, leaves the loop right after a process_one that found
\* no work, and does stop; a loop started without max_iterations sleeps after
\* a process_one that found no work and never leaves the loop.
C28_BoundedLoopTerminates ==
    /\ [](\A p \in LoopRobots :
            IF run[p].max_iterations # NoLimit
            THEN /\ run[p].iterations <= run[p].max_iterations
                 /\ run[p].at \in {"call", "process_one", "empty"}
                        => run[p].iterations < run[p].max_iterations
                 /\ run[p].at # "sleep"
            ELSE run[p].at # "stopped")
    /\ [][\A p \in LoopRobots :
            (run[p].at = "empty" /\ run'[p] # run[p])
                => /\ run'[p].iterations = run[p].iterations + 1
                   /\ run'[p].at = IF run[p].max_iterations # NoLimit
                                   THEN "stopped"
                                   ELSE "sleep"]_vars
    /\ \A p \in LoopRobots :
          (run[p].at # "off" /\ run[p].max_iterations # NoLimit)
              ~> run[p].at = "stopped"

\* A loop started with max_iterations = 2 has stopped after one process_one
\* that did work and one that found the queue empty.
C28_Witness ==
    /\ run["x1"].at = "stopped"
    /\ run["x1"].max_iterations = 2
    /\ run["x1"].iterations = 2
    /\ \E i \in Ids : /\ pending_enhancements[i].enhancement_type = "full_text"
                      /\ pending_enhancements[i].status \in {"COMPLETED", "FAILED"}
    /\ PendingOfType("full_text") = {}

\* C29: guard_transition(current, target) raises StateTransitionError exactly
\* when target is not in the table's set for current, and the error carries
\* current, target and that set; every transition out of COMPLETED, DISCARDED
\* and INDEXING_FAILED and every transition of a status to itself is rejected;
\* the table has an entry for each of the nine statuses.
C29_GuardTransition ==
    /\ DOMAIN transitions = PendingEnhancementStatus
    /\ Cardinality(PendingEnhancementStatus) = 9
    /\ last.op = "guard_transition" =>
          LET current == last.arg[1]
              target == last.arg[2]
              raised == last.exc = "StateTransitionError"
          IN /\ raised <=> target \notin transitions[current]
             /\ ~raised => last.exc = NULL
             /\ raised => /\ last.ret.current = current
                          /\ last.ret.target = target
                          /\ last.ret.allowed = transitions[current]
             /\ current \in {"COMPLETED", "DISCARDED", "INDEXING_FAILED"} => raised
             /\ current = target => raised

\* COMPLETED.guard_transition(PENDING) has raised, with an empty allowed set.
C29_Witness ==
    /\ last.op = "guard_transition"
    /\ last.arg = <<"COMPLETED", "PENDING">>
    /\ last.exc = "StateTransitionError"
    /\ last.ret.allowed = {}

\* C30: the unit a runtime had claimed when it was terminated stays in
\* PROCESSING: no other runtime's claim returns it or has it locked, and an
\* enqueue of its (document, type), in flight or committed, leaves its status
\* PROCESSING.
C30_AbandonedUnitStaysProcessing ==
    \A p \in Robots :
        (pc[p] = "terminated" /\ pending[p] # NoRow)
            => /\ pending[p].id \in Ids
               /\ pending_enhancements[pending[p].id].status = "PROCESSING"
               /\ \A q \in Procs \ {p} :
                      txn[q].id = pending[p].id
                          => (q \in Clients /\ txn[q].row.status = "PROCESSING")
               /\ \A q \in Robots \ {p} : pending[q].id # pending[p].id

\* x1 was terminated holding a unit; later the unit's (document, type) was
\* enqueued again, and the other runtime has since claimed another unit.
C30_Witness ==
    /\ pc["x1"] = "terminated"
    /\ pending["x1"] # NoRow
    /\ pending_enhancements[pending["x1"].id].updated_at > pending["x1"].updated_at
    /\ pending_enhancements[pending["x1"].id].status = "PROCESSING"
    /\ pc["x2"] = "claimed"

\* C31: the enqueue that takes a COMPLETED unit back to PENDING leaves every
\* artifact as it is; the artifacts change only when a robot run reaches its
\* artifact write, and the write of a run on a unit that already has the
\* robot's artifact puts the run's content into that same row and adds none.
C31_ReenqueueKeepsArtifact ==
    [][/\ (\E i \in Ids : /\ pending_enhancements[i].status = "COMPLETED"
                          /\ pending_enhancements'[i].status = "PENDING")
            => enhancements' = enhancements
       /\ enhancements' # enhancements
            => \E p \in Robots :
                 /\ pc[p] = "importing"
                 /\ pc'[p] = "stored"
                 /\ LET old == EnhancementConflict(pending[p].document_id,
                                                   RobotType(p), ROBOT_ID(p))
                    IN old # {}
                         => /\ DOMAIN enhancements' = DOMAIN enhancements
                            /\ \A j \in old :
                                   enhancements'[j].content = Content(p)
                            /\ \A j \in DOMAIN enhancements \ old :
                                   enhancements'[j] = enhancements[j]
      ]_vars

\* A unit was completed, enqueued again and claimed again; the second run is
\* about to write, and the artifact of the first run is still there with the
\* first run's content.
C31_Witness ==
    \E p \in Extractors :
        /\ pc[p] = "importing"
        /\ pending[p].attempts = 2
        /\ \E j \in DOMAIN enhancements :
              /\ enhancements[j].document_id = pending[p].document_id
              /\ enhancements[j].content = <<1>>
        /\ Cardinality(ArtifactsOf(pending[p].document_id, "full_text")) = 1

\* C32: when several PENDING rows of the type have the creation time of the
\* row fetch_next_pending returns, the returned row is the one with the
\* smallest id.
C32_TieBreakById ==
    [][(/\ last' # last
        /\ last'.op = "fetch_next_pending"
        /\ last'.ret # NoRow)
          => \A j \in PendingOfType(last'.arg) :
                pending_enhancements[j].created_at = last'.ret.created_at
                    => last'.ret.id <= j]_vars

\* C33: whatever the enqueuers and the two robots do, every row, committed or
\* in an open transaction, has one of the statuses PENDING, PROCESSING,
\* IMPORTING, COMPLETED, FAILED and DISCARDED; none is INDEXING,
\* INDEXING_FAILED or EXPIRED.
C33_UnreachableStatuses ==
    /\ \A i \in Ids :
          pending_enhancements[i].status \in
              {"PENDING", "PROCESSING", "IMPORTING", "COMPLETED", "FAILED",
               "DISCARDED"}
    /\ \A q \in Procs :
          txn[q] # NoTxn =>
              txn[q].row.status \in
                  {"PENDING", "PROCESSING", "IMPORTING", "COMPLETED", "FAILED",
                   "DISCARDED"}

\* A COMPLETED, a FAILED and a DISCARDED unit side by side.
C33_Witness ==
    /\ \E i \in Ids : pending_enhancements[i].status = "COMPLETED"
    /\ \E i \in Ids : pending_enhancements[i].status = "FAILED"
    /\ \E i \in Ids : pending_enhancements[i].status = "DISCARDED"

\* C34: every unit (d, t) whose status is COMPLETED has an artifact of type t
\* for document d written by the robot of that type, whatever failures,
\* discards, re-enqueues and document deletions happened before.
C34_CompletedHasArtifact ==
    \A i \in Ids :
        pending_enhancements[i].status = "COMPLETED"
            => \E p \in Robots, e \in DOMAIN enhancements :
                  /\ RobotType(p) = pending_enhancements[i].enhancement_type
                  /\ enhancements[e].document_id =
                         pending_enhancements[i].document_id
                  /\ enhancements[e].enhancement_type =
                         pending_enhancements[i].enhancement_type
                  /\ enhancements[e].robot_id = ROBOT_ID(p)

\* A unit completed on its second run, after a re-enqueue, next to a unit that
\* failed or was discarded.
C34_Witness ==
    /\ \E i \in Ids : /\ pending_enhancements[i].status = "COMPLETED"
                      /\ pending_enhancements[i].attempts >= 2
    /\ \E i \in Ids : pending_enhancements[i].status \in {"FAILED", "DISCARDED"}

\* C35: runtimes of one type in bounded mode, none terminated, nothing
\* enqueued while they run: once every runtime that was started has left its
\* loop because its claim found the queue empty, every unit of that type is
\* COMPLETED, FAILED or DISCARDED and was claimed exactly once.
C35_DrainedQueue ==
    (/\ \E p \in Extractors : run[p].at # "off"
     /\ \A p \in Extractors :
           run[p].at # "off" => run[p].at = "stopped" /\ run[p].exit = "empty")
        => \A i \in Ids :
              pending_enhancements[i].enhancement_type = "full_text"
                  => /\ pending_enhancements[i].status \in
                            {"COMPLETED", "FAILED", "DISCARDED"}
                     /\ claim_count[i] = 1

\* Both runtimes handled one unit each and then found the queue empty.
C35_Witness ==
    /\ \A p \in Extractors :
          /\ run[p].at = "stopped"
          /\ run[p].exit = "empty"
          /\ run[p].iterations = 2
    /\ \E i, j \in Ids :
          /\ i # j
          /\ pending_enhancements[i].enhancement_type = "full_text"
          /\ pending_enhancements[j].enhancement_type = "full_text"
          /\ pending_enhancements[i].status = "COMPLETED"
          /\ pending_enhancements[j].status \in {"COMPLETED", "FAILED"}

C37_CleanupSparesCurrent ==
    [][\A o \in Operators :
          (/\ op[o].fn = "delete_old_versions"
           /\ op[o].pc = "delete"
           /\ op'[o] # op[o])
              => /\ op[o].v \notin alias
                 /\ alias' = alias
                 /\ alias' \subseteq indices']_vars

\* C38: whenever the operator is between two operations (every initialize,
\* migrate, rollback and cleanup so far has returned or raised), no index the
\* alias resolves to carries a write block; write blocks sit only on indices
\* the alias does not point at.
C38_AliasTargetWritable ==
    (\A o \in {"o1"} : op[o].pc = "idle") => alias \cap blocked = {}

\* A rollback has returned: the alias is back on the index it unblocked, and
\* an older index still carries the block a migrate put on it.
C38_Witness ==
    /\ op["o1"].pc = "idle"
    /\ op["o1"].fn = "rollback"
    /\ op["o1"].exc = NULL
    /\ alias = {op["o1"].to}
    /\ blocked # {}

\* C39: a migrate whose new index <alias>_v<k+1> already exists ends at its
\* indices.create call with resource_already_exists_exception; the call
\* changes no alias binding, no index, no content and no write block, and the
\* migrate takes no further step.
C39_MigrateOntoExistingFails ==
    [][\A o \in Operators :
          (/\ op[o].fn = "migrate"
           /\ op[o].pc = "create"
           /\ op[o].to \in indices
           /\ op'[o] # op[o])
              => /\ op'[o].pc = "idle"
                 /\ op'[o].exc = "resource_already_exists_exception"
                 /\ alias' = alias
                 /\ indices' = indices
                 /\ contents' = contents
                 /\ blocked' = blocked]_vars

\* After a migrate and a rollback, a second migrate has failed on the existing
\* index, which holds documents and is not the alias target.
C39_Witness ==
    /\ op["o1"].fn = "migrate"
    /\ op["o1"].pc = "idle"
    /\ op["o1"].exc = "resource_already_exists_exception"
    /\ alias = {op["o1"].from}
    /\ op["o1"].to \in indices
    /\ contents[op["o1"].to] # {}

\* C40: when a migrate returns, every document the latest bulk reprojection
\* reported as indexed, and that the old index (the alias target the
\* reprojection wrote to) holds, is in the index the alias now resolves to:
\* no interleaving of bulk_sql_to_es with the steps of migrate loses a
\* document.
C40_MigrateLosesNoDocument ==
    [][\A o \in Operators :
          (/\ op[o].fn = "migrate"
           /\ op[o].pc = "block"
           /\ op'[o].pc = "idle"
           /\ op'[o].exc = NULL
           /\ last.op = "bulk_sql_to_es")
              => \A d \in last.ret.indexed :
                    d \in contents[op[o].from]
                        => \A v \in alias' : d \in contents'[v]]_vars

====
